---- MODULE Spec2Model ----
(***************************************************************************)
(* Model of the paranormal-tracker search path: the CLI search tool        *)
(* (src/scripts/search.py) and the API backend (src/web/backend/main.py,   *)
(* models.py).  Scores are exact rationals; the datastore is a small table *)
(* of stories with, per story, the rank the query gives it (when it        *)
(* matches) and the cosine similarity to the query embedding (when it has  *)
(* an embedding).                                                          *)
(***************************************************************************)
EXTENDS Integers, Sequences, FiniteSets, TLC

VARIABLES
    db,               \* the datastore: story_type, rank and similarity per story
    req,              \* the request being served (arguments, environment)
    pc,               \* position of the handler
    type_filter,      \* resolved type filter (a set of story_type tags)
    query_embedding,  \* None, or the query embedding
    attempt,          \* loop variable of get_query_embedding
    provider_calls,   \* embedding requests sent for this request
    waits,            \* the sleeps of get_query_embedding, in order
    response,         \* the provider's answer to the last embedding request
    db_calls,         \* datastore calls (connections and queries) made so far
    text_results,     \* rows of the lexical sub-query
    vector_results,   \* rows of the vector sub-query
    combined,         \* the merged list after the sort, before truncation
    results,          \* the list returned to the caller
    outcome,          \* how the request ended
    runs,             \* how many times the search step ran for this request
    prev_results,     \* the list the previous run of the same request returned
    files,            \* load_segments: the segment files to process, in order
    idx,              \* load_segments: position in files of the file in hand
    txn,              \* load_segments: state of the connection's transaction
    pending,          \* load_segments: writes of the open transaction
    committed,        \* load_segments: writes the database holds committed
    loaded,           \* load_segments: counter of main
    skipped,          \* load_segments: counter of main
    errors,           \* load_segments: counter of main
    reported,         \* load_segments: the ERROR lines printed, in order
    body,             \* load_segments: the body in hand, word count per paragraph
    chunker,          \* chunk_text: loop position, chunks, current_chunk, current_tokens
    plan,             \* load_segments: embedding method, inputs sent, story embedding
    opts,             \* load_segments: --dry-run, and frameworks_enabled
    analysis,         \* analyze_story_frameworks: attempt, calls, sleeps, result; what was stored
    doc_stmts,        \* load_segments: SQL statements executed for the file in hand
    tables,           \* the rows of episodes, stories and story_chunks
    reload            \* the segment loaded again and again: its date, loads, last status

vars == <<db, req, pc, type_filter, query_embedding, attempt, provider_calls,
          waits, response, db_calls, text_results, vector_results, combined, results,
          outcome, runs, prev_results, files, idx, txn, pending, committed,
          loaded, skipped, errors, reported, body, chunker, plan, opts,
          analysis, doc_stmts, tables, reload>>

-----------------------------------------------------------------------------
(* Bounds of the model *)

\* largest result limit N a request asks for
MaxLimit == 2

\* most loads of one segment
MaxLoads == 4

\* most chunks of a loaded content
MaxChunks == 2

\* story ids, in the datastore's physical order
StoryOrder == <<"A", "B", "C">>

Stories == {StoryOrder[i] : i \in 1..Len(StoryOrder)}

\* ts_rank values of matching stories, in tenths
RankValues == {4, 8}

\* cosine similarities (1 - distance), in tenths, within [-1, 1]
SimValues == {-3, 0, 3, 9}

\* blend weights alpha, in tenths
AlphaValues == {0, 7, 10}

None == "None"

-----------------------------------------------------------------------------
(* Exact rational arithmetic for the float scores *)

RECURSIVE GCD(_, _)
GCD(a, b) == IF b = 0 THEN a ELSE GCD(b, a % b)

Abs(x) == IF x < 0 THEN -x ELSE x

Rat(n, d) ==
    LET s == IF d < 0 THEN -1 ELSE 1
        g == GCD(Abs(n), Abs(d))
    IN  [n |-> (s * n) \div g, d |-> (s * d) \div g]

Zero == Rat(0, 1)

One == Rat(1, 1)

RatAdd(x, y) == Rat(x.n * y.d + y.n * x.d, x.d * y.d)

RatSub(x, y) == Rat(x.n * y.d - y.n * x.d, x.d * y.d)

RatMul(x, y) == Rat(x.n * y.n, x.d * y.d)

RatDiv(x, y) == Rat(x.n * y.d, x.d * y.n)

RatLess(x, y) == x.n * y.d < y.n * x.d

RatLeq(x, y) == x.n * y.d <= y.n * x.d

\* a score stored in tenths, as a number
Tenths(t) == Rat(t, 10)

\* the value of an absent optional score (SearchResult's default None)
NoScore == [n |-> 0, d |-> 0]

RatMax(S) == CHOOSE x \in S : \A y \in S : RatLeq(y, x)

-----------------------------------------------------------------------------
(* Python helpers *)

Min(a, b) == IF a < b THEN a ELSE b

Max(a, b) == IF a < b THEN b ELSE a

\* seq[:n]
PySlice(seq, n) ==
    LET k == IF n >= 0 THEN Min(n, Len(seq)) ELSE Max(Len(seq) + n, 0)
    IN  SubSeq(seq, 1, k)

Range(seq) == {seq[i] : i \in 1..Len(seq)}

\* the orders in which a set can be iterated
Orders(S) ==
    {f \in [1..Cardinality(S) -> S] : \A i, j \in 1..Cardinality(S) : f[i] = f[j] => i = j}

Ids(rows) == {rows[i].id : i \in 1..Len(rows)}

RowOf(rows, id) == rows[CHOOSE i \in 1..Len(rows) : rows[i].id = id]

\* a faulty sort, which leaves the list as it is
SortNone(seq) == seq

\* list.sort(key=..., reverse=True): a stable sort, descending by key
RECURSIVE SortDesc(_)
SortDesc(seq) ==
    IF Len(seq) <= 1 THEN seq
    ELSE LET rest == SortDesc(Tail(seq))
             x    == Head(seq)
             \* x stays in front of every element that is not strictly greater
             k    == Cardinality({i \in 1..Len(rest) : RatLess(x.score, rest[i].score)})
         IN  SubSeq(rest, 1, k) \o <<x>> \o SubSeq(rest, k + 1, Len(rest))

-----------------------------------------------------------------------------
(* The datastore *)

Pos(s) == CHOOSE i \in 1..Len(StoryOrder) : StoryOrder[i] = s

\* rows of S in ORDER BY key DESC; rows of equal key in physical order
RECURSIVE OrderByDesc(_, _)
OrderByDesc(S, key) ==
    IF S = {} THEN <<>>
    ELSE LET top == CHOOSE s \in S : \A t \in S :
                        \/ key[s] > key[t]
                        \/ key[s] = key[t] /\ Pos(s) <= Pos(t)
         IN  <<top>> \o OrderByDesc(S \ {top}, key)

\* a statement with LIMIT n raises for a negative n (PostgreSQL: LIMIT must
\* not be negative); LIMIT 0 returns no row
LimitRaises(n) == n < 0

\* LIMIT n of a row list
SqlLimit(rows, n) == SubSeq(rows, 1, Min(n, Len(rows)))

\* a faulty query, without the type clause
TypeOkUnfiltered(d, s, filter) == TRUE

TypeOk(d, s, filter) == filter = {} \/ d.story_type[s] \in filter

\* SELECT ... WHERE search_vector @@ query [AND story_type = ANY(filter)]
\*   ORDER BY rank DESC LIMIT n
TextQuery(d, filter, n) ==
    LET S    == {s \in DOMAIN d.rank : TypeOk(d, s, filter)}
        ids  == SqlLimit(OrderByDesc(S, d.rank), n)
    IN  [i \in 1..Len(ids) |->
            [id |-> ids[i], story_type |-> d.story_type[ids[i]],
             rank |-> Tenths(d.rank[ids[i]])]]

\* SELECT ... WHERE embedding IS NOT NULL [AND story_type = ANY(filter)]
\*   ORDER BY embedding <=> q LIMIT n
VectorQuery(d, filter, n) ==
    LET S    == {s \in DOMAIN d.similarity : TypeOk(d, s, filter)}
        ids  == SqlLimit(OrderByDesc(S, d.similarity), n)
    IN  [i \in 1..Len(ids) |->
            [id |-> ids[i], story_type |-> d.story_type[ids[i]],
             similarity |-> Tenths(d.similarity[ids[i]])]]

-----------------------------------------------------------------------------
(* Hybrid merge, CLI copy: hybrid_search of src/scripts/search.py *)

\* text_scores = {r["id"]: r.get("rank", 0) for r in text_results}
CliTextScores(rows) == [id \in Ids(rows) |-> RowOf(rows, id).rank]

CliVectorScores(rows) == [id \in Ids(rows) |-> RowOf(rows, id).similarity]

\* max_x = max(scores.values()) if scores else 1
CliMax(scores) ==
    IF DOMAIN scores = {} THEN One ELSE RatMax({scores[k] : k \in DOMAIN scores})

\* {k: v / max_x if max_x else 0 for k, v in scores.items()}
CliNormalize(scores) ==
    LET m == CliMax(scores)
    IN  [k \in DOMAIN scores |-> IF m # Zero THEN RatDiv(scores[k], m) ELSE Zero]

\* scores.get(id_, 0)
GetOr0(scores, id) == IF id \in DOMAIN scores THEN scores[id] ELSE Zero

\* a faulty blend, the two weights exchanged
BlendSwapped(alpha, vector_score, text_score) ==
    RatAdd(RatMul(alpha, text_score), RatMul(RatSub(One, alpha), vector_score))

\* hybrid_score = alpha * vector_score + (1 - alpha) * text_score
Blend(alpha, vector_score, text_score) ==
    RatAdd(RatMul(alpha, vector_score), RatMul(RatSub(One, alpha), text_score))

StoryTypeOf(text_rows, vector_rows, id) ==
    IF id \in Ids(text_rows) THEN RowOf(text_rows, id).story_type
    ELSE RowOf(vector_rows, id).story_type

\* the body of the loop over all_ids, iterated in `order`
CliCombine(text_rows, vector_rows, alpha, order) ==
    LET text_scores   == CliNormalize(CliTextScores(text_rows))
        vector_scores == CliNormalize(CliVectorScores(vector_rows))
    IN  [i \in 1..Len(order) |->
            LET text_score   == GetOr0(text_scores, order[i])
                vector_score == GetOr0(vector_scores, order[i])
            IN  [id           |-> order[i],
                 story_type   |-> StoryTypeOf(text_rows, vector_rows, order[i]),
                 score        |-> Blend(alpha, vector_score, text_score),
                 text_score   |-> text_score,
                 vector_score |-> vector_score]]

\* combined.sort(key=lambda x: x["hybrid_score"], reverse=True)
CliMerge(text_rows, vector_rows, alpha, order) ==
    SortDesc(CliCombine(text_rows, vector_rows, alpha, order))

-----------------------------------------------------------------------------
(* Hybrid merge, API copy: the else branch of search_stories *)

\* max((r.get(col, 0) for r in rows.values()), default=1) or 1
ApiMax(vals) ==
    IF vals = {} THEN One
    ELSE IF RatMax(vals) = Zero THEN One ELSE RatMax(vals)

\* text_results.get(id_, {}).get("rank", 0) / max_text
ApiTextScore(text_rows, id) ==
    RatDiv(IF id \in Ids(text_rows) THEN RowOf(text_rows, id).rank ELSE Zero,
           ApiMax({text_rows[i].rank : i \in 1..Len(text_rows)}))

\* vector_results.get(id_, {}).get("similarity", 0) / max_vec
ApiVectorScore(vector_rows, id) ==
    RatDiv(IF id \in Ids(vector_rows) THEN RowOf(vector_rows, id).similarity ELSE Zero,
           ApiMax({vector_rows[i].similarity : i \in 1..Len(vector_rows)}))

ApiCombine(text_rows, vector_rows, alpha, order) ==
    [i \in 1..Len(order) |->
        LET text_score == ApiTextScore(text_rows, order[i])
            vec_score  == ApiVectorScore(vector_rows, order[i])
        IN  [id           |-> order[i],
             story_type   |-> StoryTypeOf(text_rows, vector_rows, order[i]),
             score        |-> Blend(alpha, vec_score, text_score),
             text_score   |-> text_score,
             vector_score |-> vec_score]]

\* combined.sort(key=lambda x: x.score or 0, reverse=True)
ApiMerge(text_rows, vector_rows, alpha, order) ==
    SortDesc(ApiCombine(text_rows, vector_rows, alpha, order))

-----------------------------------------------------------------------------
(* Type/category filter: FRAMEWORK_CATEGORIES and the four resolutions *)

FrameworkCategories ==
    [caps |->
        [temporal_lobe       |-> <<"precognition", "time_slip", "deja_vu">>,
         clinical_perceptual |-> <<"shadow_person", "ghost", "doppelganger">>,
         chemosensory        |-> <<"phantom_smell", "other">>,
         sleep_related       |-> <<"sleep_paralysis", "obe", "nde">>,
         external_agent      |-> <<"alien_encounter", "possession", "haunting">>],
     sleep_paralysis |->
        [intruder         |-> <<"shadow_person", "ghost", "alien_encounter">>,
         incubus          |-> <<"sleep_paralysis", "possession">>,
         vestibular_motor |-> <<"obe", "nde", "time_slip">>],
     hypnagogic |->
        [visual         |-> <<"ghost", "shadow_person", "doppelganger", "ufo">>,
         auditory       |-> <<"ghost", "haunting">>,
         tactile        |-> <<"sleep_paralysis", "possession">>,
         proprioceptive |-> <<"obe", "time_slip">>]]

\* Python truthiness of an Optional[str]
Truthy(x) == x # None /\ x # ""

\* the framework branch shared by the four copies: the list the code builds,
\* as the set of its elements (the filter is only used in story_type = ANY(...))
FrameworkTypes(framework, framework_category) ==
    LET fw == FrameworkCategories[framework]
    IN  IF Truthy(framework_category) /\ framework_category \in DOMAIN fw
        THEN Range(fw[framework_category])
        ELSE UNION {Range(fw[c]) : c \in DOMAIN fw}

\* search_stories: story_types is a list (None and [] are both falsy)
SearchTypeFilter(framework, framework_category, story_types) ==
    IF Truthy(framework) /\ framework \in DOMAIN FrameworkCategories
    THEN FrameworkTypes(framework, framework_category)
    ELSE IF story_types # <<>> THEN Range(story_types) ELSE {}

\* a faulty resolution, in which an explicit type wins over the framework
ListTypeFilterExplicitFirst(framework, framework_category, story_type) ==
    IF Truthy(story_type) THEN {story_type}
    ELSE IF Truthy(framework) /\ framework \in DOMAIN FrameworkCategories
         THEN FrameworkTypes(framework, framework_category)
         ELSE {}

\* list_stories: story_type is one optional tag
ListTypeFilter(framework, framework_category, story_type) ==
    IF Truthy(framework) /\ framework \in DOMAIN FrameworkCategories
    THEN FrameworkTypes(framework, framework_category)
    ELSE IF Truthy(story_type) THEN {story_type} ELSE {}

\* get_map_stories
MapTypeFilter(framework, framework_category, story_type) ==
    IF Truthy(framework) /\ framework \in DOMAIN FrameworkCategories
    THEN FrameworkTypes(framework, framework_category)
    ELSE IF Truthy(story_type) THEN {story_type} ELSE {}

\* get_vector_space_points
PointsTypeFilter(framework, framework_category, story_type) ==
    IF Truthy(framework) /\ framework \in DOMAIN FrameworkCategories
    THEN FrameworkTypes(framework, framework_category)
    ELSE IF Truthy(story_type) THEN {story_type} ELSE {}

-----------------------------------------------------------------------------
(* The embedding provider and the two get_query_embedding loops *)

ApiMaxRetries == 3

CliMaxRetries == 5

\* what one POST to the provider can come to: a 200 with an embedding, a 429,
\* a 401/403, another 4xx/5xx, a timeout or connection error, a 200 whose
\* body has no data[0].embedding
ProviderOutcomes ==
    {"ok", "rate_limited", "auth_error", "http_error", "timeout", "malformed"}

\* one iteration of the API loop: ret says the function returns, with emb;
\* sleep is the time.sleep of the iteration (0: none)
ApiAttemptStep(k, resp) ==
    IF resp = "ok" THEN [ret |-> TRUE, emb |-> "vec", sleep |-> 0]
    ELSE IF resp = "rate_limited"
         THEN [ret |-> k + 1 = ApiMaxRetries, emb |-> None, sleep |-> 2 ^ k]
         ELSE IF k = ApiMaxRetries - 1
              THEN [ret |-> TRUE, emb |-> None, sleep |-> 0]
              ELSE [ret |-> FALSE, emb |-> None, sleep |-> 1]

\* if not query_embedding and request.search_type == "vector": raise HTTPException
ApiRaisesUnavailable(search_type, emb) == emb = None /\ search_type = "vector"

\* one iteration of the CLI loop: ret says the function returns emb, raised
\* that it raises (the response's error, or "Max retries exceeded")
CliAttemptStep(k, resp) ==
    IF resp = "ok" THEN [ret |-> TRUE, raised |-> FALSE, emb |-> "vec", sleep |-> 0]
    ELSE IF resp = "rate_limited"
         THEN [ret |-> FALSE, raised |-> k + 1 = CliMaxRetries, emb |-> None,
               sleep |-> 2 ^ k]
         ELSE [ret |-> FALSE, raised |-> TRUE, emb |-> None, sleep |-> 0]

\* a faulty handling, which exits on every embedding failure
CliExitOnEmbeddingFailure(vector_only) ==
    [pc |-> "done", outcome |-> "embedding_unavailable", text_only |-> FALSE]

\* main on a missing key or a failed embedding: exit in --vector-only, else
\* args.text_only = True
CliOnEmbeddingFailure(vector_only) ==
    IF vector_only
    THEN [pc |-> "done", outcome |-> "embedding_unavailable", text_only |-> FALSE]
    ELSE [pc |-> "search", outcome |-> None, text_only |-> TRUE]

\* a faulty branch condition, without the fallback of hybrid mode
ApiUsesTextBranchTextOnly(search_type, emb) == search_type = "text"

\* which branch of search_stories runs, line 296
ApiUsesTextBranch(search_type, emb) ==
    search_type = "text" \/ (search_type = "hybrid" /\ emb = None)

-----------------------------------------------------------------------------
(* Requests and the datastore's contents *)

\* the stories' rank / similarity columns for the query: a story is absent
\* from `rank` when it does not match the query, and absent from
\* `similarity` when its embedding is NULL
PartialFns(S, V) == UNION {[T -> V] : T \in SUBSET S}

NoRows == <<>>

NoReq ==
    [entry |-> None, query |-> "", limit |-> 0, offset |-> 0, alpha |-> 7,
     search_type |-> None, text_only |-> FALSE, vector_only |-> FALSE,
     framework |-> None, framework_category |-> None,
     story_types |-> <<>>, story_type |-> None, api_key |-> FALSE]

\* POST /api/search with a SearchRequest body; api_key is settings.voyage_api_key
ApiSearchReq(search_type, limit, alpha, fw, cat, types, key) ==
    [NoReq EXCEPT !.entry = "api_search", !.query = "shadow figure",
                  !.limit = limit, !.alpha = alpha, !.search_type = search_type,
                  !.framework = fw, !.framework_category = cat,
                  !.story_types = types, !.api_key = key]

\* the mode the flags of the CLI ask for
CliMode(text_only, vector_only) ==
    IF text_only THEN "text" ELSE IF vector_only THEN "vector" ELSE "hybrid"

\* the command line accepts any string as QUERY, any int as --limit and any
\* float as --alpha (argparse type=int / type=float, no range)
\* search.py QUERY --limit N --alpha A [--text-only] [--vector-only];
\* api_key is the VOYAGE_API_KEY of the environment
CliSearchReq(text_only, vector_only, limit, alpha, key) ==
    [NoReq EXCEPT !.entry = "cli_search", !.query = "shadow figure",
                  !.limit = limit, !.alpha = alpha,
                  !.search_type = CliMode(text_only, vector_only),
                  !.text_only = text_only, !.vector_only = vector_only,
                  !.api_key = key]

\* GET /api/stories, /api/map/stories, /api/vector-space/points
BrowseReq(entry, limit, offset, fw, cat, type) ==
    [NoReq EXCEPT !.entry = entry, !.limit = limit, !.offset = offset,
                  !.framework = fw, !.framework_category = cat,
                  !.story_type = type]

\* rows as the text branch returns them: score = text_score = rank
TextRows(rows) ==
    [i \in 1..Len(rows) |->
        [id |-> rows[i].id, story_type |-> rows[i].story_type,
         score |-> rows[i].rank, text_score |-> rows[i].rank,
         vector_score |-> NoScore]]

\* rows as the vector branch returns them: score = vector_score = similarity
VectorRows(rows) ==
    [i \in 1..Len(rows) |->
        [id |-> rows[i].id, story_type |-> rows[i].story_type,
         score |-> rows[i].similarity, text_score |-> NoScore,
         vector_score |-> rows[i].similarity]]

\* rows of a browse query over the stories of S, in the datastore's order
BrowseRows(d, S) ==
    LET ids == SelectSeq(StoryOrder, LAMBDA s : s \in S)
    IN  [i \in 1..Len(ids) |-> [id |-> ids[i], story_type |-> d.story_type[ids[i]]]]

searchVars == <<text_results, vector_results, combined, results>>

embedVars == <<query_embedding, attempt, provider_calls, waits, response>>

loaderVars == <<files, idx, txn, pending, committed, loaded, skipped, errors,
                reported>>

\* no loader is running
LoaderIdle ==
    /\ files = <<>>
    /\ idx = 0
    /\ txn = "idle"
    /\ pending = {}
    /\ committed = {}
    /\ loaded = 0
    /\ skipped = 0
    /\ errors = 0
    /\ reported = <<>>

\* the state of load_segment_to_db for one document
ingestVars == <<body, chunker, plan, opts, analysis, doc_stmts>>

\* chunk_text before its loop: chunks = [], current_chunk = [], current_tokens = 0
ChunkerStart == [i |-> 1, chunks |-> <<>>, current_chunk |-> <<>>, current_tokens |-> 0]

NoPlan == [method |-> None, inputs |-> 0, embedding |-> None]

\* the tables a reload writes, and the reload's own state
storeVars == <<tables, reload>>

NoTables == [episodes |-> {}, stories |-> {}, story_chunks |-> {}]

NoReload ==
    [air_date |-> "NULL", loads |-> 0, nchunks |-> 0, status |-> "None"]

StoreIdle == tables = NoTables /\ reload = NoReload

\* no frameworks payload
NoPayload == [kind |-> "none", fws |-> <<>>]

\* analyze_story_frameworks before its loop; nothing stored for the story
FwStart ==
    [attempt |-> 0, calls |-> 0, sleeps |-> <<>>, result |-> "None",
     frameworks |-> NoPayload, stored |-> NoPayload]

\* python load_segments.py --no-frameworks
PlainOpts == [dry_run |-> FALSE, frameworks_enabled |-> FALSE]

IngestIdle ==
    /\ body = <<>>
    /\ chunker = ChunkerStart
    /\ plan = NoPlan
    /\ opts = PlainOpts
    /\ analysis = FwStart
    /\ doc_stmts = 0
    /\ StoreIdle

-----------------------------------------------------------------------------
(* POST /api/search: search_stories of src/web/backend/main.py *)

\* the Field constraints of SearchRequest (models.py:89-97), which FastAPI
\* checks before it calls search_stories: query is any str, limit in 1..100,
\* search_type one of the three modes, alpha in [0, 1]
ApiLimitMax == 100

SearchRequestValid(r) ==
    /\ r.limit >= 1 /\ r.limit <= ApiLimitMax
    /\ r.search_type \in {"hybrid", "text", "vector"}
    /\ r.alpha >= 0 /\ r.alpha <= 10

\* the body is parsed into a SearchRequest; a 422 answers an invalid one
ApiValidate ==
    /\ pc = "validate"
    /\ req.entry = "api_search"
    /\ pc' = IF SearchRequestValid(req) THEN "resolve" ELSE "done"
    /\ outcome' = IF SearchRequestValid(req) THEN outcome ELSE "validation_error"
    /\ UNCHANGED <<db, req, type_filter, embedVars, db_calls, searchVars, runs,
                   prev_results>>
    /\ UNCHANGED loaderVars
    /\ UNCHANGED ingestVars
    /\ UNCHANGED storeVars

\* lines 274-284
ApiResolveFilter ==
    /\ pc = "resolve"
    /\ req.entry = "api_search"
    /\ type_filter' = SearchTypeFilter(req.framework, req.framework_category,
                                       req.story_types)
    /\ pc' = IF req.search_type \in {"vector", "hybrid"} THEN "embed" ELSE "connect"
    /\ UNCHANGED <<db, req, embedVars, db_calls, searchVars, outcome, runs,
                   prev_results>>
    /\ UNCHANGED loaderVars
    /\ UNCHANGED ingestVars
    /\ UNCHANGED storeVars

\* get_query_embedding without a key, lines 55-56, and lines 290-291
ApiEmbedNoKey ==
    /\ pc = "embed"
    /\ req.entry = "api_search"
    /\ ~req.api_key
    /\ query_embedding' = None
    /\ pc' = IF ApiRaisesUnavailable(req.search_type, None) THEN "done" ELSE "connect"
    /\ outcome' = IF ApiRaisesUnavailable(req.search_type, None)
                  THEN "embedding_unavailable" ELSE outcome
    /\ UNCHANGED <<db, req, type_filter, attempt, provider_calls, waits, response, db_calls,
                   searchVars, runs, prev_results>>
    /\ UNCHANGED loaderVars
    /\ UNCHANGED ingestVars
    /\ UNCHANGED storeVars

\* one iteration of the loop of get_query_embedding, lines 58-87, and, when
\* the function returns, lines 290-291
ApiEmbedAttempt ==
    /\ pc = "embed"
    /\ req.entry = "api_search"
    /\ req.api_key
    /\ attempt < ApiMaxRetries
    /\ \E resp \in ProviderOutcomes :
          LET step == ApiAttemptStep(attempt, resp)
          IN  /\ provider_calls' = provider_calls + 1
              /\ response' = resp
              /\ waits' = IF step.sleep > 0 THEN Append(waits, step.sleep) ELSE waits
              /\ attempt' = IF step.ret THEN attempt ELSE attempt + 1
              /\ query_embedding' = step.emb
              /\ pc' = IF ~step.ret THEN "embed"
                       ELSE IF ApiRaisesUnavailable(req.search_type, step.emb)
                            THEN "done" ELSE "connect"
              /\ outcome' = IF step.ret /\ ApiRaisesUnavailable(req.search_type, step.emb)
                            THEN "embedding_unavailable" ELSE outcome
    /\ UNCHANGED <<db, req, type_filter, db_calls, searchVars, runs, prev_results>>
    /\ UNCHANGED loaderVars
    /\ UNCHANGED ingestVars
    /\ UNCHANGED storeVars

\* with get_db_cursor() as cur, line 295
ApiConnect ==
    /\ pc = "connect"
    /\ req.entry = "api_search"
    /\ db_calls' = db_calls + 1
    /\ pc' = "search"
    /\ UNCHANGED <<db, req, type_filter, embedVars, searchVars, outcome, runs,
                   prev_results>>
    /\ UNCHANGED loaderVars
    /\ UNCHANGED ingestVars
    /\ UNCHANGED storeVars

\* the text branch, lines 296-345
ApiTextSearch ==
    /\ pc = "search"
    /\ req.entry = "api_search"
    /\ ApiUsesTextBranch(req.search_type, query_embedding)
    /\ text_results' = TextQuery(db, type_filter, req.limit)
    /\ results' = TextRows(text_results')
    /\ db_calls' = db_calls + 1
    /\ pc' = "done"
    /\ outcome' = "ok"
    /\ runs' = runs + 1
    /\ UNCHANGED <<db, req, type_filter, embedVars, vector_results, combined,
                   prev_results>>
    /\ UNCHANGED loaderVars
    /\ UNCHANGED ingestVars
    /\ UNCHANGED storeVars

\* the vector branch, lines 347-395
ApiVectorSearch ==
    /\ pc = "search"
    /\ req.entry = "api_search"
    /\ ~ApiUsesTextBranch(req.search_type, query_embedding)
    /\ req.search_type = "vector"
    /\ vector_results' = VectorQuery(db, type_filter, req.limit)
    /\ results' = VectorRows(vector_results')
    /\ db_calls' = db_calls + 1
    /\ pc' = "done"
    /\ outcome' = "ok"
    /\ runs' = runs + 1
    /\ UNCHANGED <<db, req, type_filter, embedVars, text_results, combined,
                   prev_results>>
    /\ UNCHANGED loaderVars
    /\ UNCHANGED ingestVars
    /\ UNCHANGED storeVars

\* the hybrid branch, lines 397-485.  The branch is never entered without an
\* embedding; if it were, the similarities would be NULL and max() or the
\* division would raise TypeError.
ApiHybridSearch ==
    /\ pc = "search"
    /\ req.entry = "api_search"
    /\ ~ApiUsesTextBranch(req.search_type, query_embedding)
    /\ req.search_type # "vector"
    /\ LET text_rows   == TextQuery(db, type_filter, req.limit * 2)
           vector_rows == VectorQuery(db, type_filter, req.limit * 2)
           all_ids     == Ids(text_rows) \cup Ids(vector_rows)
       IN  IF query_embedding = None
           THEN /\ outcome' = "internal_error"
                /\ UNCHANGED searchVars
           ELSE /\ text_results' = text_rows
                /\ vector_results' = vector_rows
                /\ \E order \in Orders(all_ids) :
                      LET merged == ApiMerge(text_rows, vector_rows,
                                             Tenths(req.alpha), order)
                      IN  /\ combined' = merged
                          /\ results' = PySlice(merged, req.limit)
                /\ outcome' = "ok"
    /\ db_calls' = db_calls + 2
    /\ pc' = "done"
    /\ runs' = runs + 1
    /\ UNCHANGED <<db, req, type_filter, embedVars, prev_results>>
    /\ UNCHANGED loaderVars
    /\ UNCHANGED ingestVars
    /\ UNCHANGED storeVars

-----------------------------------------------------------------------------
(* search.py: main of src/scripts/search.py *)

\* psycopg2.connect, lines 245-249, and line 253
CliConnect ==
    /\ pc = "connect"
    /\ req.entry = "cli_search"
    /\ db_calls' = db_calls + 1
    /\ pc' = IF ~req.text_only THEN "embed" ELSE "search"
    /\ UNCHANGED <<db, req, type_filter, embedVars, searchVars, outcome, runs,
                   prev_results>>
    /\ UNCHANGED loaderVars
    /\ UNCHANGED ingestVars
    /\ UNCHANGED storeVars

\* no VOYAGE_API_KEY, lines 254-259
CliEmbedNoKey ==
    /\ pc = "embed"
    /\ req.entry = "cli_search"
    /\ ~req.api_key
    /\ LET next == CliOnEmbeddingFailure(req.vector_only)
       IN  /\ pc' = next.pc
           /\ outcome' = next.outcome
           /\ req' = [req EXCEPT !.text_only = next.text_only]
    /\ UNCHANGED <<db, type_filter, embedVars, db_calls, searchVars, runs,
                   prev_results>>
    /\ UNCHANGED loaderVars
    /\ UNCHANGED ingestVars
    /\ UNCHANGED storeVars

\* one iteration of the loop of get_query_embedding, lines 41-64, and, when
\* it raises, the handler of main, lines 263-268
CliEmbedAttempt ==
    /\ pc = "embed"
    /\ req.entry = "cli_search"
    /\ req.api_key
    /\ attempt < CliMaxRetries
    /\ \E resp \in ProviderOutcomes :
          LET step == CliAttemptStep(attempt, resp)
              next == CliOnEmbeddingFailure(req.vector_only)
          IN  /\ provider_calls' = provider_calls + 1
              /\ response' = resp
              /\ waits' = IF step.sleep > 0 THEN Append(waits, step.sleep) ELSE waits
              /\ attempt' = IF step.ret \/ step.raised THEN attempt ELSE attempt + 1
              /\ query_embedding' = step.emb
              /\ pc' = IF step.ret THEN "search"
                       ELSE IF step.raised THEN next.pc ELSE "embed"
              /\ outcome' = IF step.raised THEN next.outcome ELSE outcome
              /\ req' = IF step.raised
                        THEN [req EXCEPT !.text_only = next.text_only] ELSE req
    /\ UNCHANGED <<db, type_filter, db_calls, searchVars, runs, prev_results>>
    /\ UNCHANGED loaderVars
    /\ UNCHANGED ingestVars
    /\ UNCHANGED storeVars

\* text_search, lines 67-86, called at line 272
CliTextSearch ==
    /\ pc = "search"
    /\ req.entry = "cli_search"
    /\ req.text_only
    /\ IF LimitRaises(req.limit)
       THEN /\ outcome' = "datastore_error"
            /\ UNCHANGED <<text_results, results>>
       ELSE /\ text_results' = TextQuery(db, {}, req.limit)
            /\ results' = TextRows(text_results')
            /\ outcome' = "ok"
    /\ db_calls' = db_calls + 1
    /\ pc' = "done"
    /\ runs' = runs + 1
    /\ UNCHANGED <<db, req, type_filter, embedVars, vector_results, combined,
                   prev_results>>
    /\ UNCHANGED loaderVars
    /\ UNCHANGED ingestVars
    /\ UNCHANGED storeVars

\* vector_search, lines 89-108, called at line 274
CliVectorSearch ==
    /\ pc = "search"
    /\ req.entry = "cli_search"
    /\ ~req.text_only /\ req.vector_only
    /\ IF LimitRaises(req.limit)
       THEN /\ outcome' = "datastore_error"
            /\ UNCHANGED <<vector_results, results>>
       ELSE /\ vector_results' = VectorQuery(db, {}, req.limit)
            /\ results' = VectorRows(vector_results')
            /\ outcome' = "ok"
    /\ db_calls' = db_calls + 1
    /\ pc' = "done"
    /\ runs' = runs + 1
    /\ UNCHANGED <<db, req, type_filter, embedVars, text_results, combined,
                   prev_results>>
    /\ UNCHANGED loaderVars
    /\ UNCHANGED ingestVars
    /\ UNCHANGED storeVars

\* hybrid_search, lines 111-157, called at line 276.  main never calls it
\* without an embedding; if it did, the similarities would be NULL and max()
\* would raise TypeError.
CliHybridSearch ==
    /\ pc = "search"
    /\ req.entry = "cli_search"
    /\ ~req.text_only /\ ~req.vector_only
    /\ LET text_rows   == TextQuery(db, {}, req.limit * 2)
           vector_rows == VectorQuery(db, {}, req.limit * 2)
           all_ids     == Ids(text_rows) \cup Ids(vector_rows)
       IN  IF query_embedding = None
           THEN /\ outcome' = "internal_error"
                /\ UNCHANGED searchVars
           ELSE IF LimitRaises(req.limit * 2)
           THEN /\ outcome' = "datastore_error"
                /\ UNCHANGED searchVars
           ELSE /\ text_results' = text_rows
                /\ vector_results' = vector_rows
                /\ \E order \in Orders(all_ids) :
                      LET merged == CliMerge(text_rows, vector_rows,
                                             Tenths(req.alpha), order)
                      IN  /\ combined' = merged
                          /\ results' = PySlice(merged, req.limit)
                /\ outcome' = "ok"
    /\ db_calls' = db_calls + (IF LimitRaises(req.limit * 2) THEN 1 ELSE 2)
    /\ pc' = "done"
    /\ runs' = runs + 1
    /\ UNCHANGED <<db, req, type_filter, embedVars, prev_results>>
    /\ UNCHANGED loaderVars
    /\ UNCHANGED ingestVars
    /\ UNCHANGED storeVars

-----------------------------------------------------------------------------
(* A sub-query of the hybrid search that raises (a statement error or a    *)
(* timeout) on an open connection                                          *)

SubQueries == {"text", "vector"}

\* search_stories, lines 397-449: cur.execute raises inside the with block;
\* get_db_cursor rolls back and re-raises (database.py:27-29), and the
\* request is answered with a 500
ApiHybridQueryFails ==
    /\ pc = "search"
    /\ req.entry = "api_search"
    /\ req.search_type = "hybrid"
    /\ query_embedding # None
    /\ \E failed \in SubQueries :
          /\ text_results' = IF failed = "vector"
                             THEN TextQuery(db, type_filter, req.limit * 2)
                             ELSE text_results
          /\ db_calls' = db_calls + (IF failed = "vector" THEN 2 ELSE 1)
    /\ outcome' = "datastore_error"
    /\ pc' = "done"
    /\ runs' = runs + 1
    /\ UNCHANGED <<db, req, type_filter, embedVars, vector_results, combined,
                   results, prev_results>>
    /\ UNCHANGED loaderVars
    /\ UNCHANGED ingestVars
    /\ UNCHANGED storeVars

\* hybrid_search, lines 124-125: text_search or vector_search raises; neither
\* hybrid_search nor main (line 276) catches it, and the tool ends with a
\* traceback
CliHybridQueryFails ==
    /\ pc = "search"
    /\ req.entry = "cli_search"
    /\ ~req.text_only /\ ~req.vector_only
    /\ query_embedding # None
    /\ \E failed \in SubQueries :
          /\ text_results' = IF failed = "vector"
                             THEN TextQuery(db, {}, req.limit * 2)
                             ELSE text_results
          /\ db_calls' = db_calls + (IF failed = "vector" THEN 2 ELSE 1)
    /\ outcome' = "datastore_error"
    /\ pc' = "done"
    /\ runs' = runs + 1
    /\ UNCHANGED <<db, req, type_filter, embedVars, vector_results, combined,
                   results, prev_results>>
    /\ UNCHANGED loaderVars
    /\ UNCHANGED ingestVars
    /\ UNCHANGED storeVars

-----------------------------------------------------------------------------
(* The browse endpoints of src/web/backend/main.py *)

\* list_stories, lines 157-222: rows LIMIT limit OFFSET offset
ListStories ==
    /\ pc = "browse"
    /\ req.entry = "api_list"
    /\ type_filter' = ListTypeFilter(req.framework, req.framework_category,
                                     req.story_type)
    /\ LET rows == BrowseRows(db, {s \in Stories : TypeOk(db, s, type_filter')})
       IN  results' = SubSeq(rows, req.offset + 1,
                             Min(req.offset + req.limit, Len(rows)))
    /\ db_calls' = db_calls + 2
    /\ pc' = "done"
    /\ outcome' = "ok"
    /\ UNCHANGED <<db, req, embedVars, text_results, vector_results, combined,
                   runs, prev_results>>
    /\ UNCHANGED loaderVars
    /\ UNCHANGED ingestVars
    /\ UNCHANGED storeVars

\* get_map_stories, lines 491-539: the stories whose location geocodes
MapStories ==
    /\ pc = "browse"
    /\ req.entry = "api_map"
    /\ type_filter' = MapTypeFilter(req.framework, req.framework_category,
                                    req.story_type)
    /\ results' = BrowseRows(db, {s \in db.geo : TypeOk(db, s, type_filter')})
    /\ db_calls' = db_calls + 2
    /\ pc' = "done"
    /\ outcome' = "ok"
    /\ UNCHANGED <<db, req, embedVars, text_results, vector_results, combined,
                   runs, prev_results>>
    /\ UNCHANGED loaderVars
    /\ UNCHANGED ingestVars
    /\ UNCHANGED storeVars

\* get_vector_space_points, lines 543-610: the stories with UMAP coordinates
VectorSpacePoints ==
    /\ pc = "browse"
    /\ req.entry = "api_points"
    /\ type_filter' = PointsTypeFilter(req.framework, req.framework_category,
                                       req.story_type)
    /\ results' = BrowseRows(db, {s \in db.umap : TypeOk(db, s, type_filter')})
    /\ db_calls' = db_calls + 2
    /\ pc' = "done"
    /\ outcome' = "ok"
    /\ UNCHANGED <<db, req, embedVars, text_results, vector_results, combined,
                   runs, prev_results>>
    /\ UNCHANGED loaderVars
    /\ UNCHANGED ingestVars
    /\ UNCHANGED storeVars

(* load_segments.py: the loop of main over the segment files, run with     *)
(* --no-frameworks on one connection                                       *)

LoadMaxRetries == 5

\* a faulty loop, which waits one second after every 429
LoadAttemptStepFlatWait(k, resp) ==
    IF resp = "ok" THEN [ret |-> TRUE, raised |-> FALSE, sleep |-> 0]
    ELSE IF resp = "rate_limited"
         THEN [ret |-> FALSE, raised |-> k + 1 = LoadMaxRetries, sleep |-> 1]
         ELSE [ret |-> FALSE, raised |-> TRUE, sleep |-> 0]

\* one iteration of the loop of get_embedding_with_retry and of
\* get_embeddings_batch_with_retry (the two loops are the same): ret says
\* the function returns the embedding(s), raised that it raises
LoadAttemptStep(k, resp) ==
    IF resp = "ok" THEN [ret |-> TRUE, raised |-> FALSE, sleep |-> 0]
    ELSE IF resp = "rate_limited"
         THEN [ret |-> FALSE, raised |-> k + 1 = LoadMaxRetries, sleep |-> 2 ^ k]
         ELSE [ret |-> FALSE, raised |-> TRUE, sleep |-> 0]

\* the rows load_segment_to_db writes for a document: a new episode row, the
\* story row and, for a chunked story, its chunk rows
EpisodeWrite(doc) == [file |-> doc.name, row |-> "episode"]

Writes(doc) ==
    {EpisodeWrite(doc), [file |-> doc.name, row |-> "story"]}
        \cup (IF doc.chunked THEN {[file |-> doc.name, row |-> "chunks"]} ELSE {})

searchOnlyVars ==
    <<db, type_filter, db_calls, text_results, vector_results, combined, results,
      runs, prev_results>>

\* the statements load_segment_to_db executes for a document, the failing one
\* included: the episode SELECT alone on an aborted transaction; the episode
\* SELECT and INSERT and the story SELECT before a statement fails; the story
\* INSERT too on success, and the DELETE and INSERTs of story_chunks
StatementsRun(doc, t) ==
    IF t = "aborted" THEN 1
    ELSE IF doc.params # "ok" THEN 3
    ELSE IF doc.chunked THEN 6 ELSE 4

\* except Exception as e: errors += 1; print ERROR: file name - e
CountError(cause) ==
    /\ errors' = errors + 1
    /\ reported' = Append(reported, [file |-> files[idx].name, error |-> cause])
    /\ UNCHANGED <<loaded, skipped>>

\* a faulty order, which tests dry_run after the framework analysis
AfterParseDryRunLate(skip, dry_run, frameworks_enabled) ==
    IF skip # "no" THEN "skip"
    ELSE IF frameworks_enabled THEN "frameworks"
    ELSE IF dry_run THEN "would_load" ELSE "embed"

\* load_segment_to_db, lines 242-279: the two skips, then the dry run, then
\* the framework analysis when enabled, then the embedding
AfterParse(skip, dry_run, frameworks_enabled) ==
    IF skip # "no" THEN "skip"
    ELSE IF dry_run THEN "would_load"
    ELSE IF frameworks_enabled THEN "frameworks" ELSE "embed"

\* load_segment_to_db up to the embedding, lines 239-299: an empty body and a
\* story that is not first-person are skipped; a dry run returns would_load,
\* which main counts as loaded (lines 575-576)
LoadFile ==
    /\ pc = "load_file"
    /\ LET route == AfterParse(files[idx].skip, opts.dry_run, opts.frameworks_enabled)
       IN  /\ skipped' = IF route = "skip" THEN skipped + 1 ELSE skipped
           /\ loaded' = IF route = "would_load" THEN loaded + 1 ELSE loaded
           /\ pc' = IF route \in {"skip", "would_load"} THEN "load_next"
                    ELSE IF route = "frameworks" THEN "load_frameworks"
                    ELSE "load_embed"
    /\ attempt' = 0
    /\ provider_calls' = 0
    /\ waits' = <<>>
    /\ response' = None
    /\ query_embedding' = None
    /\ analysis' = FwStart
    /\ doc_stmts' = 0
    /\ UNCHANGED <<req, outcome, searchOnlyVars, storeVars, files, idx, txn, pending,
                   committed, errors, reported, body, chunker, plan, opts>>

\* one iteration of the embedding loop, lines 139-163 (full story) or
\* 174-197 (chunks); an exception leaves load_segment_to_db and is caught by
\* main, lines 585-587
LoadEmbedAttempt ==
    /\ pc = "load_embed"
    /\ attempt < LoadMaxRetries
    /\ \E resp \in ProviderOutcomes :
          LET step == LoadAttemptStep(attempt, resp)
          IN  /\ provider_calls' = provider_calls + 1
              /\ response' = resp
              /\ waits' = IF step.sleep > 0 THEN Append(waits, step.sleep) ELSE waits
              /\ attempt' = IF step.ret \/ step.raised THEN attempt ELSE attempt + 1
              /\ query_embedding' = IF step.ret THEN "vec" ELSE None
              /\ pc' = IF step.ret THEN "load_write"
                       ELSE IF step.raised THEN "load_next" ELSE "load_embed"
              /\ IF step.raised
                 THEN CountError("embedding")
                 ELSE UNCHANGED <<loaded, skipped, errors, reported>>
    /\ UNCHANGED <<req, outcome, searchOnlyVars, storeVars, files, idx, txn, pending,
                   committed>>
    /\ UNCHANGED ingestVars

\* the statements of load_segment_to_db and its conn.commit(), lines
\* 302-418, for a document with its embedding in hand.
\*  - On a connection whose transaction is aborted the first execute raises
\*    (current transaction is aborted, commands ignored until end of
\*    transaction block): nothing rolls it back between two documents.
\*  - A frontmatter value the driver cannot adapt (a YAML mapping as
\*    location) raises in the client at the stories statement, after the
\*    episode row was inserted; the transaction stays open with that row.
\*  - A value the server rejects (a non-numeric timestamp_start) raises in
\*    the server at the stories statement: the transaction is aborted and its
\*    writes are lost.
\*  - Otherwise the rows are written and committed, together with whatever
\*    the open transaction still holds.
LoadWrite ==
    /\ pc = "load_write"
    /\ doc_stmts' = StatementsRun(files[idx], txn)
    /\ analysis' = [analysis EXCEPT
                      !.stored = IF txn # "aborted" /\ files[idx].params = "ok"
                                 THEN analysis.frameworks ELSE @]
    /\ LET doc == files[idx]
       IN  IF txn = "aborted"
           THEN /\ CountError("in_failed_transaction")
                /\ UNCHANGED <<txn, pending, committed>>
           ELSE IF doc.params = "unadaptable"
           THEN /\ CountError("adapt_error")
                /\ txn' = "open"
                /\ pending' = pending \cup {EpisodeWrite(doc)}
                /\ UNCHANGED committed
           ELSE IF doc.params = "rejected"
           THEN /\ CountError("db_error")
                /\ txn' = "aborted"
                /\ pending' = {}
                /\ UNCHANGED committed
           ELSE /\ loaded' = loaded + 1
                /\ committed' = committed \cup pending \cup Writes(doc)
                /\ pending' = {}
                /\ txn' = "idle"
                /\ UNCHANGED <<skipped, errors, reported>>
    /\ pc' = "load_next"
    /\ UNCHANGED <<req, outcome, searchOnlyVars, storeVars, embedVars, files, idx, body, chunker,
                   plan, opts>>

\* the end of the loop body and of main, lines 589-604: the next file, or
\* conn.close() (which drops an open transaction) and the exit status
LoadNext ==
    /\ pc = "load_next"
    /\ IF idx < Len(files)
       THEN /\ idx' = idx + 1
            /\ pc' = "load_file"
            /\ UNCHANGED <<txn, pending, outcome>>
       ELSE /\ pc' = "load_done"
            /\ txn' = IF txn = "none" THEN "none" ELSE "closed"
            /\ pending' = {}
            /\ outcome' = IF errors > 0 THEN "exit_1" ELSE "exit_0"
            /\ UNCHANGED idx
    /\ UNCHANGED <<req, searchOnlyVars, storeVars, embedVars, files, committed, loaded,
                   skipped, errors, reported>>
    /\ UNCHANGED ingestVars

(* framework_analysis.py: analyze_story_frameworks and its two callers,   *)
(* load_segment_to_db and the loop of backfill_frameworks.py               *)

FwMaxRetries == 2

\* FRAMEWORKS, cut down to one framework of 'present' fields, one of belief
\* fields and the one that mixes them
FRAMEWORKS ==
    [hypnagogic |-> {"visual"}, aei |-> {"experience", "belief"}, rpbs |-> {"psi"}]

BELIEF_STANCES == {"affirmed", "denied", "not_mentioned"}

\* a faulty test, which forgets the belief field of aei
IsBeliefFieldRpbsOnly(f, key) == f = "rpbs"

\* if fw == "rpbs" or (fw == "aei" and key == "belief")
IsBeliefField(f, key) == f = "rpbs" \/ (f = "aei" /\ key = "belief")

\* what data[fw][key] can be: missing, not a dict, or a dict with or without
\* a stance (valid or not) and a present (a bool or not)
Entries ==
    [kind : {"object"}, stance : {"absent", "affirmed", "maybe"},
     present : {"absent", "true", "yes"}]
    \cup [kind : {"missing", "not_object"}, stance : {"absent"}, present : {"absent"}]

GoodEntry(f, key) ==
    IF IsBeliefField(f, key)
    THEN [kind |-> "object", stance |-> "affirmed", present |-> "absent"]
    ELSE [kind |-> "object", stance |-> "absent", present |-> "true"]

\* a payload that names every framework and every key as the tool schema asks
GoodPayload ==
    [kind |-> "object",
     fws |-> [f \in DOMAIN FRAMEWORKS |->
                 [kind |-> "object",
                  keys |-> [key \in FRAMEWORKS[f] |-> GoodEntry(f, key)]]]]

\* parsed.get("frameworks"): the good payload, the payloads that differ from
\* it in one entry or in one framework, and a value that is not a dict
Payloads ==
    {GoodPayload, [kind |-> "not_object", fws |-> <<>>]}
    \cup UNION {{[GoodPayload EXCEPT !.fws[f].keys[key] = e] :
                    key \in FRAMEWORKS[f], e \in Entries} : f \in DOMAIN FRAMEWORKS}
    \cup {[GoodPayload EXCEPT !.fws[f].kind = k] :
             f \in DOMAIN FRAMEWORKS, k \in {"missing", "not_object"}}

\* what one _call_anthropic comes to: an HTTP error (raise_for_status), an
\* answer without the tool_use block, a tool input that is not a dict or has
\* no 'frameworks', or a tool input with a frameworks value
Answers ==
    {[kind |-> k, frameworks |-> NoPayload] :
        k \in {"http_error", "no_tool_use", "input_not_object", "no_frameworks"}}
    \cup {[kind |-> "tool_use", frameworks |-> p] : p \in Payloads}

\* _validate_frameworks returns (it raises ValueError otherwise)
validate_frameworks(data) ==
    /\ data.kind = "object"
    /\ \A f \in DOMAIN FRAMEWORKS :
          /\ data.fws[f].kind = "object"
          /\ \A key \in FRAMEWORKS[f] :
                LET entry == data.fws[f].keys[key]
                IN  /\ entry.kind = "object"
                    /\ IF IsBeliefField(f, key)
                       THEN entry.stance \in BELIEF_STANCES
                       ELSE entry.present \in {"true", "false"}

\* one iteration of the loop of analyze_story_frameworks, lines 298-320: ret
\* says it returns the FrameworkResult, raised that the loop ends and
\* RuntimeError is raised (line 322); sleep is 1.5 * attempt, in tenths
FwAttemptStep(k, answer) ==
    LET ok == answer.kind = "tool_use" /\ validate_frameworks(answer.frameworks)
    IN  [ret |-> ok, raised |-> ~ok /\ k = FwMaxRetries, sleep |-> 15 * k]

\* one attempt of analyze_story_frameworks for the story in hand, and what
\* its caller does when it raises: main of load_segments.py, lines 585-587,
\* and main of backfill_frameworks.py, lines 171-173, count the error
FwAttempt ==
    /\ pc \in {"load_frameworks", "backfill_analyze"}
    /\ analysis.attempt <= FwMaxRetries
    /\ \E answer \in Answers :
          LET step == FwAttemptStep(analysis.attempt, answer)
          IN  /\ analysis' =
                    [analysis EXCEPT
                       !.calls = @ + 1,
                       !.sleeps = IF step.sleep > 0 THEN Append(@, step.sleep) ELSE @,
                       !.attempt = IF step.ret \/ step.raised THEN @ ELSE @ + 1,
                       !.result = IF step.ret THEN "returned"
                                  ELSE IF step.raised THEN "RuntimeError" ELSE "None",
                       !.frameworks = IF step.ret THEN answer.frameworks ELSE NoPayload]
              /\ pc' = IF pc = "load_frameworks"
                       THEN (IF step.ret THEN "load_embed"
                             ELSE IF step.raised THEN "load_next" ELSE pc)
                       ELSE (IF step.ret THEN "backfill_update"
                             ELSE IF step.raised THEN "backfill_next" ELSE pc)
              /\ IF step.raised
                 THEN CountError("frameworks")
                 ELSE UNCHANGED <<loaded, skipped, errors, reported>>
    /\ UNCHANGED <<req, outcome, searchOnlyVars, storeVars, embedVars, files, idx, txn, pending,
                   committed, body, chunker, plan, opts, doc_stmts>>

\* backfill_frameworks.py, lines 158-163: the next story of rows; a dry run
\* prints WOULD_UPDATE and counts the story as processed
BackfillStory ==
    /\ pc = "backfill_story"
    /\ analysis' = FwStart
    /\ doc_stmts' = 0
    /\ IF opts.dry_run
       THEN /\ loaded' = loaded + 1
            /\ pc' = "backfill_next"
       ELSE /\ loaded' = loaded
            /\ pc' = "backfill_analyze"
    /\ UNCHANGED <<req, outcome, searchOnlyVars, storeVars, embedVars, files, idx, txn, pending,
                   committed, skipped, errors, reported, body, chunker, plan, opts>>

\* backfill_frameworks.py, lines 168-170: update_story_frameworks with the
\* result, committed at once
BackfillUpdate ==
    /\ pc = "backfill_update"
    /\ analysis' = [analysis EXCEPT !.stored = analysis.frameworks]
    /\ committed' = committed \cup {[file |-> files[idx].name, row |-> "frameworks"]}
    /\ doc_stmts' = doc_stmts + 1
    /\ loaded' = loaded + 1
    /\ pc' = "backfill_next"
    /\ UNCHANGED <<req, outcome, searchOnlyVars, storeVars, embedVars, files, idx, txn, pending,
                   skipped, errors, reported, body, chunker, plan, opts>>

\* backfill_frameworks.py, lines 175-186: the next story, or conn.close() and
\* the exit status
BackfillNext ==
    /\ pc = "backfill_next"
    /\ IF idx < Len(files)
       THEN /\ idx' = idx + 1
            /\ pc' = "backfill_story"
            /\ UNCHANGED <<txn, outcome>>
       ELSE /\ pc' = "backfill_done"
            /\ txn' = "closed"
            /\ outcome' = IF errors > 0 THEN "exit_1" ELSE "exit_0"
            /\ UNCHANGED idx
    /\ UNCHANGED <<req, searchOnlyVars, storeVars, embedVars, files, pending, committed, loaded,
                   skipped, errors, reported, ingestVars>>

(* load_segments.py: the statements of load_segment_to_db on the tables,   *)
(* for one segment (same show, date, title and timestamp_start) loaded      *)
(* again with content that may have changed                                *)

\* SELECT id FROM episodes WHERE podcast_name = %s AND air_date = %s: with
\* no date in the frontmatter the parameter is NULL and the comparison is
\* never true
EpisodeMatch(episodes, show, air_date) ==
    {e \in episodes : e.podcast_name = show /\ air_date # "NULL" /\ e.air_date = air_date}

\* SELECT id FROM stories WHERE episode_id = %s AND title = %s AND
\* start_time_seconds = %s
StoryMatch(stories, episode_id, title, start) ==
    {st \in stories : st.episode_id = episode_id /\ st.title = title
                      /\ st.start_time_seconds = start}

\* a fresh id (the column default)
FreshId(rows) == Cardinality(rows) + 1

\* the story_chunks rows after the load of a story: replaced by the new
\* chunks when the method is mean_pooled, left as they are otherwise
ChunkRowsAfter(story_chunks, story_id, method, nchunks, version) ==
    IF method = "mean_pooled" /\ nchunks > 0
    THEN {c \in story_chunks : c.story_id # story_id}
         \cup {[story_id |-> story_id, chunk_index |-> i, content |-> version] :
                   i \in 0..(nchunks - 1)}
    ELSE story_chunks

\* load_segment_to_db, lines 302-426, for the segment with its embedding in
\* hand: nchunks = 0 is the full method.  The content of a load is named by
\* the number of the load.  An episode without a date is a row whose
\* air_date is NULL (Optional in models.py:72, NULLS LAST in main.py:189).
ReloadSegment ==
    /\ pc = "reload"
    /\ reload.loads < MaxLoads
    /\ \E nchunks \in 0..MaxChunks :
          LET version == reload.loads + 1
              method  == IF nchunks = 0 THEN "full" ELSE "mean_pooled"
              row     == EpisodeMatch(tables.episodes, "show", reload.air_date)
              episode_id == IF row # {} THEN (CHOOSE e \in row : TRUE).id
                            ELSE FreshId(tables.episodes)
              episodes == IF row # {} THEN tables.episodes
                          ELSE tables.episodes \cup
                                  {[id |-> episode_id, podcast_name |-> "show",
                                    air_date |-> reload.air_date]}
              existing == StoryMatch(tables.stories, episode_id, "title", 0)
              story_id == IF existing # {} THEN (CHOOSE st \in existing : TRUE).id
                          ELSE FreshId(tables.stories)
              story    == [id |-> story_id, episode_id |-> episode_id,
                           title |-> "title", start_time_seconds |-> 0,
                           content |-> version, embedding_method |-> method]
              stories  == {st \in tables.stories : st.id # story_id} \cup {story}
          IN  /\ tables' = [episodes |-> episodes, stories |-> stories,
                            story_chunks |->
                               ChunkRowsAfter(tables.story_chunks, story_id,
                                              method, nchunks, version)]
              /\ reload' = [reload EXCEPT
                              !.loads = version, !.nchunks = nchunks,
                              !.status = IF existing # {} THEN "updated"
                                         ELSE "inserted"]
    /\ UNCHANGED <<pc, req, outcome, searchOnlyVars, embedVars, loaderVars, ingestVars>>

(* load_segments.py: the embedding method and chunk_text.  A body is the   *)
(* sequence of its paragraphs (split on blank lines), each paragraph given *)
(* by its number of words; a chunk is the sequence of the positions of its *)
(* paragraphs, a full text all of them                                     *)

MAX_TOKENS_FOR_FULL_EMBED == 4000

CHUNK_SIZE_TOKENS == 500

CHUNK_OVERLAP_TOKENS == 50

\* dimension of the provider's vectors (1024 in the source, scaled down)
EMBEDDING_DIM == 2

\* int(len(text.split()) * 1.3)
estimate_tokens(words) == (words * 13) \div 10

RECURSIVE Words(_, _)
\* len(text.split()) of the paragraphs at positions ps joined by blank lines
Words(paras, ps) ==
    IF ps = <<>> THEN 0 ELSE paras[Head(ps)] + Words(paras, Tail(ps))

FullText(paras) == [i \in 1..Len(paras) |-> i]

\* a faulty test, which closes the chunk as soon as the target is reached
ChunkClosesAtTarget(current_tokens, para_tokens, current_chunk) ==
    current_tokens + para_tokens >= CHUNK_SIZE_TOKENS /\ current_chunk # <<>>

\* if current_tokens + para_tokens > chunk_size and current_chunk
ChunkCloses(current_tokens, para_tokens, current_chunk) ==
    current_tokens + para_tokens > CHUNK_SIZE_TOKENS /\ current_chunk # <<>>

\* current_chunk = [overlap_text] if estimate_tokens(overlap_text) < overlap else []
OverlapSeed(paras, current_chunk) ==
    LET overlap_text == current_chunk[Len(current_chunk)]
    IN  IF estimate_tokens(paras[overlap_text]) < CHUNK_OVERLAP_TOKENS
        THEN <<overlap_text>> ELSE <<>>

\* a faulty iteration, which loses the paragraph that closes a chunk
ChunkIterDropsPara(st, paras) ==
    LET para_tokens == estimate_tokens(paras[st.i])
        closes == ChunkCloses(st.current_tokens, para_tokens, st.current_chunk)
    IN  IF closes
        THEN [i |-> st.i + 1, chunks |-> Append(st.chunks, st.current_chunk),
              current_chunk |-> OverlapSeed(paras, st.current_chunk),
              current_tokens |-> 0]
        ELSE [i |-> st.i + 1, chunks |-> st.chunks,
              current_chunk |-> Append(st.current_chunk, st.i),
              current_tokens |-> st.current_tokens + para_tokens]

\* one iteration of the loop of chunk_text over the paragraph at position st.i
ChunkIter(st, paras) ==
    LET para_tokens == estimate_tokens(paras[st.i])
        closes == ChunkCloses(st.current_tokens, para_tokens, st.current_chunk)
        seed   == IF closes THEN OverlapSeed(paras, st.current_chunk) ELSE <<>>
        chunk  == IF closes THEN seed ELSE st.current_chunk
        tokens == IF closes THEN estimate_tokens(Words(paras, seed))
                  ELSE st.current_tokens
    IN  [i |-> st.i + 1,
         chunks |-> IF closes THEN Append(st.chunks, st.current_chunk) ELSE st.chunks,
         current_chunk |-> Append(chunk, st.i),
         current_tokens |-> tokens + para_tokens]

\* the provider's vector for a text: fixed dimension, decided by the text
Vec(paras, ps) ==
    [k \in 1..EMBEDDING_DIM |-> Rat((Words(paras, ps) + k * Len(ps)) % 5, 1)]

RECURSIVE VecSum(_, _)
VecSum(embeddings, k) ==
    IF embeddings = <<>> THEN Zero
    ELSE RatAdd(Head(embeddings)[k], VecSum(Tail(embeddings), k))

\* mean_pool_embeddings
mean_pool_embeddings(embeddings) ==
    IF embeddings = <<>> THEN [k \in 1..EMBEDDING_DIM |-> Zero]
    ELSE IF Len(embeddings) = 1 THEN embeddings[1]
    ELSE [k \in 1..Len(embeddings[1]) |->
             RatDiv(VecSum(embeddings, k), Rat(Len(embeddings), 1))]

\* load_segment_to_db, lines 265 and 288-293: the estimate of the whole body
\* decides; the full method sends the body as one input
ChooseMethod ==
    /\ pc = "embed_choice"
    /\ LET token_count == estimate_tokens(Words(body, FullText(body)))
       IN  IF token_count < MAX_TOKENS_FOR_FULL_EMBED
           THEN /\ plan' = [method |-> "full", inputs |-> 1,
                            embedding |-> Vec(body, FullText(body))]
                /\ pc' = "method_done"
           ELSE /\ plan' = plan
                /\ pc' = "chunking"
    /\ chunker' = ChunkerStart
    /\ UNCHANGED <<req, outcome, searchOnlyVars, storeVars, embedVars, loaderVars, body, opts,
                   analysis, doc_stmts>>

\* chunk_text, lines 115-126: one paragraph
ChunkStep ==
    /\ pc = "chunking"
    /\ chunker.i <= Len(body)
    /\ chunker' = ChunkIter(chunker, body)
    /\ UNCHANGED <<pc, req, outcome, searchOnlyVars, storeVars, embedVars, loaderVars, body, plan,
                   opts, analysis, doc_stmts>>

\* chunk_text, lines 128-131: the last chunk, and the return
ChunkReturn ==
    /\ pc = "chunking"
    /\ chunker.i > Len(body)
    /\ chunker' = [chunker EXCEPT
                     !.chunks = IF chunker.current_chunk # <<>>
                                THEN Append(@, chunker.current_chunk) ELSE @]
    /\ pc' = "chunk_done"
    /\ UNCHANGED <<req, outcome, searchOnlyVars, storeVars, embedVars, loaderVars, body, plan,
                   opts, analysis, doc_stmts>>

\* load_segment_to_db, lines 296-299: the chunks sent as one batch, one vector
\* per chunk, and their mean as the story embedding
EmbedChunks ==
    /\ pc = "chunk_done"
    /\ req.entry = "load_segments"
    /\ LET chunk_embeddings == [c \in 1..Len(chunker.chunks) |-> Vec(body, chunker.chunks[c])]
       IN  plan' = [method |-> "mean_pooled", inputs |-> Len(chunk_embeddings),
                    embedding |-> mean_pool_embeddings(chunk_embeddings)]
    /\ pc' = "method_done"
    /\ UNCHANGED <<req, outcome, searchOnlyVars, storeVars, embedVars, loaderVars, body, chunker,
                   opts, analysis, doc_stmts>>

(* The same command run again: same arguments, same datastore *)

RepeatRequest ==
    /\ pc = "done"
    /\ outcome = "ok"
    /\ runs = 1
    /\ prev_results' = results
    /\ pc' = "search"
    /\ UNCHANGED <<db, req, type_filter, embedVars, db_calls, searchVars,
                   outcome, runs>>
    /\ UNCHANGED loaderVars
    /\ UNCHANGED ingestVars
    /\ UNCHANGED storeVars

\* the same query and limit asked again of one signal alone: --text-only
\* after a hybrid search with --alpha 0, --vector-only after --alpha 1
RerunOneSignal ==
    /\ pc = "done"
    /\ outcome = "ok"
    /\ runs = 1
    /\ req.entry = "cli_search"
    /\ req.search_type = "hybrid"
    /\ req.alpha \in {0, 10}
    /\ prev_results' = results
    /\ req' = CliSearchReq(req.alpha = 0, req.alpha = 10, req.limit, req.alpha,
                           req.api_key)
    /\ pc' = "search"
    /\ UNCHANGED <<db, type_filter, embedVars, db_calls, searchVars, outcome, runs>>
    /\ UNCHANGED loaderVars
    /\ UNCHANGED ingestVars
    /\ UNCHANGED storeVars

-----------------------------------------------------------------------------
(* Datastore contents and request arguments the specifications draw from *)

\* story_type tags of the stored stories; None is a NULL story_type
TypePool == {"ghost", "ufo", None}

\* the columns of the end-to-end scenario: A: rank 0.8; B: rank 0.4,
\* similarity 0.9; C: similarity 0.3
ScenarioRank == [s \in {"A", "B"} |-> IF s = "A" THEN 8 ELSE 4]

ScenarioSim == [s \in {"B", "C"} |-> IF s = "B" THEN 9 ELSE 3]

\* every story matches, two of them with the same rank
TiedRank == [s \in Stories |-> IF s = "B" THEN 8 ELSE 4]

NoSim == [s \in {} |-> 0]

\* no story matches the query
NoRank == [s \in {} |-> 0]

StoryTypings == {t \in [Stories -> TypePool] : t["A"] = "ghost"}

MergeDBs ==
    [story_type : {[s \in Stories |-> None]},
     rank       : PartialFns(Stories, RankValues),
     similarity : PartialFns(Stories, SimValues),
     geo        : {Stories},
     umap       : {Stories}]

RepeatDBs ==
    [story_type : {[s \in Stories |-> None]},
     rank       : PartialFns(Stories, {4}),
     similarity : PartialFns(Stories, {9}),
     geo        : {Stories},
     umap       : {Stories}]

FlowDBs ==
    [story_type : StoryTypings,
     rank       : {ScenarioRank, TiedRank},
     similarity : {ScenarioSim, NoSim},
     geo        : {Stories},
     umap       : {Stories}]

BrowseDBs ==
    [story_type : StoryTypings,
     rank       : {TiedRank},
     similarity : {ScenarioSim},
     geo        : {Stories, {"A", "B"}},
     umap       : {Stories, {"B", "C"}}]

\* filter arguments of the requests of Spec
FlowFrameworks == {None, "hypnagogic"}

FlowCategories == {None, "auditory"}

FlowStoryTypes == {<<>>, <<"ufo">>}

\* filter arguments of the requests of FilterSpec: absent, empty, known and
\* unknown names
Frameworks == {None, "", "caps", "sleep_paralysis", "hypnagogic", "astral"}

Categories == {None, "auditory", "incubus", "nope"}

StoryTypeLists == {<<>>, <<"ufo">>, <<"ghost", "ufo">>, <<"ufo", "ufo">>}

StoryTypeArgs == {None, "", "ufo", "ghost"}

SearchTypes == {"text", "vector", "hybrid"}

Idle ==
    /\ req = NoReq
    /\ pc = "idle"
    /\ type_filter = {}
    /\ query_embedding = None
    /\ attempt = 0
    /\ provider_calls = 0
    /\ waits = <<>>
    /\ response = None
    /\ db_calls = 0
    /\ text_results = NoRows
    /\ vector_results = NoRows
    /\ combined = NoRows
    /\ results = NoRows
    /\ outcome = None
    /\ runs = 0
    /\ prev_results = NoRows
    /\ LoaderIdle
    /\ IngestIdle

\* a request arrives
Start(r) ==
    /\ pc = "idle"
    /\ req' = r
    /\ pc' = IF r.entry = "api_search" THEN "validate"
             ELSE IF r.entry = "cli_search" THEN "connect" ELSE "browse"
    /\ UNCHANGED <<db, type_filter, embedVars, db_calls, searchVars, outcome,
                   runs, prev_results>>
    /\ UNCHANGED loaderVars
    /\ UNCHANGED ingestVars
    /\ UNCHANGED storeVars

-----------------------------------------------------------------------------
(* Spec: a search request from its arrival to its answer, API and CLI *)

StartApiSearch ==
    \E st \in SearchTypes, n \in 1..MaxLimit, fw \in FlowFrameworks,
       cat \in FlowCategories, ts \in FlowStoryTypes, key \in BOOLEAN :
          Start(ApiSearchReq(st, n, 7, fw, cat, ts, key))

StartCliSearch ==
    \E t \in BOOLEAN, v \in BOOLEAN, n \in 1..MaxLimit, key \in BOOLEAN :
          Start(CliSearchReq(t, v, n, 7, key))

Init == db \in FlowDBs /\ Idle

ApiSearchNext ==
    \/ ApiValidate
    \/ ApiResolveFilter
    \/ ApiEmbedNoKey
    \/ ApiEmbedAttempt
    \/ ApiConnect
    \/ ApiTextSearch
    \/ ApiVectorSearch
    \/ ApiHybridSearch

CliSearchNext ==
    \/ CliConnect
    \/ CliEmbedNoKey
    \/ CliEmbedAttempt
    \/ CliTextSearch
    \/ CliVectorSearch
    \/ CliHybridSearch

Next == StartApiSearch \/ StartCliSearch \/ ApiSearchNext \/ CliSearchNext

Spec == Init /\ [][Next]_vars

\* the steps of a request up to the lexical query: none waits on anything but
\* the provider's answer, which always comes (a response, an error or a timeout)
DegradeNext ==
    \/ ApiValidate
    \/ ApiResolveFilter
    \/ ApiEmbedNoKey
    \/ ApiEmbedAttempt
    \/ ApiConnect
    \/ ApiTextSearch
    \/ CliConnect
    \/ CliEmbedNoKey
    \/ CliEmbedAttempt
    \/ CliTextSearch

FairSpec == Spec /\ WF_vars(DegradeNext)

-----------------------------------------------------------------------------
(* MergeSpec: the hybrid search step over every small datastore *)

MergeReqs ==
    {ApiSearchReq("hybrid", n, a, None, None, <<>>, TRUE) :
        n \in 1..MaxLimit, a \in AlphaValues}
    \cup {CliSearchReq(FALSE, FALSE, n, a, TRUE) :
        n \in 1..MaxLimit, a \in AlphaValues}

\* the handler at its search step, with the query embedding in hand
AtSearch ==
    /\ pc = "search"
    /\ type_filter = {}
    /\ query_embedding = "vec"
    /\ attempt = 0
    /\ provider_calls = 1
    /\ waits = <<>>
    /\ response = "ok"
    /\ db_calls = 1
    /\ text_results = NoRows
    /\ vector_results = NoRows
    /\ combined = NoRows
    /\ results = NoRows
    /\ outcome = None
    /\ runs = 0
    /\ prev_results = NoRows
    /\ LoaderIdle
    /\ IngestIdle

MergeInit == db \in MergeDBs /\ req \in MergeReqs /\ AtSearch

MergeNext == CliHybridSearch \/ ApiHybridSearch

MergeSpec == MergeInit /\ [][MergeNext]_vars

(* RepeatSpec: the same hybrid search run twice from the command line, each *)
(* run a process of its own (the ids are strings, whose hashes, and with   *)
(* them the iteration order of the set all_ids, change from run to run)    *)

RepeatReqs ==
    {CliSearchReq(FALSE, FALSE, n, a, TRUE) : n \in 1..MaxLimit, a \in AlphaValues}

RepeatInit == db \in RepeatDBs /\ req \in RepeatReqs /\ AtSearch

RepeatNext == CliHybridSearch \/ RepeatRequest

RepeatSpec == RepeatInit /\ [][RepeatNext]_vars

-----------------------------------------------------------------------------
(* FilterSpec: the four endpoints that resolve a type filter *)

StartFilteredSearch ==
    \E n \in 1..MaxLimit, fw \in Frameworks, cat \in Categories,
       ts \in StoryTypeLists :
          Start(ApiSearchReq("text", n, 7, fw, cat, ts, FALSE))

StartBrowse ==
    \E e \in {"api_list", "api_map", "api_points"}, fw \in Frameworks,
       cat \in Categories, t \in StoryTypeArgs :
          \E n \in (IF e = "api_list" THEN 1..MaxLimit ELSE {0}),
             off \in (IF e = "api_list" THEN {0, 1} ELSE {0}) :
                Start(BrowseReq(e, n, off, fw, cat, t))

FilterInit == db \in BrowseDBs /\ Idle

FilterNext ==
    \/ StartFilteredSearch
    \/ StartBrowse
    \/ ApiValidate
    \/ ApiResolveFilter
    \/ ApiConnect
    \/ ApiTextSearch
    \/ ListStories
    \/ MapStories
    \/ VectorSpacePoints

FilterSpec == FilterInit /\ [][FilterNext]_vars

-----------------------------------------------------------------------------
(* QuerySpec: every endpoint that queries the stories, in every mode *)

StartFlowBrowse ==
    \E e \in {"api_list", "api_map", "api_points"}, fw \in FlowFrameworks,
       cat \in FlowCategories, t \in {None, "ufo"} :
          Start(BrowseReq(e, IF e = "api_list" THEN MaxLimit ELSE 0, 0, fw, cat, t))

QueryNext ==
    \/ Next
    \/ StartFlowBrowse
    \/ ListStories
    \/ MapStories
    \/ VectorSpacePoints

QuerySpec == Init /\ [][QueryNext]_vars

-----------------------------------------------------------------------------
(* ValidateSpec: search requests with arguments of any value *)

\* limits in and out of 1..ApiLimitMax
AnyLimits == {-1, 0, ApiLimitMax + 1} \cup 1..MaxLimit

\* blend weights in and out of [0, 1], in tenths
AnyAlphas == {-5, 7, 15}

AnyQueries == {"", "shadow figure"}

AnyReqs ==
    {[ApiSearchReq(st, n, a, None, None, <<>>, key) EXCEPT !.query = q] :
        st \in SearchTypes, n \in AnyLimits, a \in AnyAlphas, q \in AnyQueries,
        key \in BOOLEAN}
    \cup {[CliSearchReq(t, v, n, a, key) EXCEPT !.query = q] :
        t \in BOOLEAN, v \in BOOLEAN, n \in AnyLimits, a \in AnyAlphas,
        q \in AnyQueries, key \in BOOLEAN}

\* the request as it arrives; plainto_tsquery of the empty text matches no row
ValidateInit ==
    /\ db \in [story_type : {[s \in Stories |-> None]},
               rank       : {ScenarioRank, NoRank},
               similarity : {ScenarioSim},
               geo        : {Stories},
               umap       : {Stories}]
    /\ req \in AnyReqs
    /\ req.query = "" => db.rank = NoRank
    /\ pc = IF req.entry = "api_search" THEN "validate" ELSE "connect"
    /\ type_filter = {}
    /\ query_embedding = None
    /\ attempt = 0
    /\ provider_calls = 0
    /\ waits = <<>>
    /\ response = None
    /\ db_calls = 0
    /\ text_results = NoRows
    /\ vector_results = NoRows
    /\ combined = NoRows
    /\ results = NoRows
    /\ outcome = None
    /\ runs = 0
    /\ prev_results = NoRows
    /\ LoaderIdle
    /\ IngestIdle

ValidateNext == ApiSearchNext \/ CliSearchNext

ValidateSpec == ValidateInit /\ [][ValidateNext]_vars

-----------------------------------------------------------------------------
(* FaultSpec: the hybrid search step when a sub-query may raise *)

FaultNext ==
    \/ ApiHybridSearch
    \/ CliHybridSearch
    \/ ApiHybridQueryFails
    \/ CliHybridQueryFails

FaultSpec == MergeInit /\ [][FaultNext]_vars

-----------------------------------------------------------------------------
(* LoadSpec: load_segments.py over every short list of segment files *)

\* most files of one run
MaxFiles == 2

\* a segment file: skipped (empty body, or first_person: false) or loaded;
\* embedded whole or in chunks (token_count >= MAX_TOKENS_FOR_FULL_EMBED);
\* its frontmatter values fit the statements, or one cannot be adapted by
\* the driver, or one is rejected by the server
DocKinds ==
    [skip : {"empty", "third_person"}, chunked : {FALSE}, params : {"ok"}]
    \cup [skip : {"no"}, chunked : BOOLEAN, params : {"ok", "unadaptable", "rejected"}]

\* files named by their position in the sorted listing
FileLists ==
    UNION {{[i \in 1..n |-> [name |-> i, skip |-> k[i].skip, chunked |-> k[i].chunked,
                              params |-> k[i].params]] : k \in [1..n -> DocKinds]} :
              n \in 1..MaxFiles}

LoadReq == [NoReq EXCEPT !.entry = "load_segments", !.api_key = TRUE]

\* main at the head of its loop: keys present, connection open, files listed
LoadInitWith(o) ==
    /\ db \in RepeatDBs
    /\ db.rank = NoRank /\ db.similarity = NoSim
    /\ req = LoadReq
    /\ pc = "load_file"
    /\ files \in FileLists
    /\ idx = 1
    /\ txn = IF o.dry_run THEN "none" ELSE "idle"
    /\ pending = {}
    /\ committed = {}
    /\ loaded = 0
    /\ skipped = 0
    /\ errors = 0
    /\ reported = <<>>
    /\ type_filter = {}
    /\ query_embedding = None
    /\ attempt = 0
    /\ provider_calls = 0
    /\ waits = <<>>
    /\ response = None
    /\ db_calls = IF o.dry_run THEN 0 ELSE 1
    /\ text_results = NoRows
    /\ vector_results = NoRows
    /\ combined = NoRows
    /\ results = NoRows
    /\ outcome = None
    /\ runs = 0
    /\ prev_results = NoRows
    /\ body = <<>>
    /\ chunker = ChunkerStart
    /\ plan = NoPlan
    /\ opts = o
    /\ analysis = FwStart
    /\ doc_stmts = 0
    /\ StoreIdle

LoadInit == LoadInitWith(PlainOpts)

LoaderNext == LoadFile \/ LoadEmbedAttempt \/ LoadWrite \/ LoadNext

LoadSpec == LoadInit /\ [][LoaderNext]_vars

-----------------------------------------------------------------------------
(* RetrySpec: every caller of the embedding provider, the two searches and *)
(* the loader, against every sequence of provider answers                  *)

RetryInit == (db \in RepeatDBs /\ Idle) \/ LoadInit

RetryNext == Next \/ LoaderNext

RetrySpec == RetryInit /\ [][RetryNext]_vars

-----------------------------------------------------------------------------
(* Properties of the hybrid merge (MergeSpec, RepeatSpec) *)

\* a hybrid search has returned its merged list
HybridDone ==
    /\ pc = "done"
    /\ outcome = "ok"
    /\ req.search_type = "hybrid"
    /\ query_embedding # None

RawRanks == {text_results[i].rank : i \in 1..Len(text_results)}

RawSims == {vector_results[i].similarity : i \in 1..Len(vector_results)}

InUnit(x) == RatLeq(Zero, x) /\ RatLeq(x, One)

\* raw score over the maximum of its candidate set; 0 for a story that is
\* not in the set
NormOf(rows, raws, id, raw) ==
    IF id \in Ids(rows) THEN RatDiv(raw, RatMax(raws)) ELSE Zero

\* the maximum of a candidate set is not 0 (the quotient is defined)
Divisible(raws) == raws = {} \/ RatMax(raws) # Zero

\* C1: after a hybrid search with an embedding, the merged list holds exactly
\* the stories of the union of the two candidate sets, and the score of each
\* is alpha * norm_vector + (1 - alpha) * norm_text, a norm being the raw
\* score over the maximum raw score of that signal's candidates and 0 for a
\* story the signal did not return (for candidate sets whose maximum is not
\* 0); the returned list is a prefix of it.  In the scenario alpha = 0.7,
\* lexical {A: 0.8, B: 0.4}, vector {B: 0.9, C: 0.3} the order is B, A, C
\* with scores 0.85, 0.3, 7/30.
C1_HybridScoreIsBlend ==
    HybridDone =>
        /\ Ids(combined) = Ids(text_results) \cup Ids(vector_results)
        /\ Len(combined) = Cardinality(Ids(combined))
        /\ results = SubSeq(combined, 1, Len(results))
        /\ (Divisible(RawRanks) /\ Divisible(RawSims)) =>
              \A i \in 1..Len(combined) :
                 LET id == combined[i].id
                     nt == NormOf(text_results, RawRanks, id,
                                  Tenths(IF id \in DOMAIN db.rank THEN db.rank[id] ELSE 0))
                     nv == NormOf(vector_results, RawSims, id,
                                  Tenths(IF id \in DOMAIN db.similarity
                                         THEN db.similarity[id] ELSE 0))
                     a  == Tenths(req.alpha)
                 IN  combined[i].score =
                        RatAdd(RatMul(a, nv), RatMul(RatSub(One, a), nt))
        /\ (db.rank = ScenarioRank /\ db.similarity = ScenarioSim
               /\ req.alpha = 7 /\ req.limit >= 2) =>
              /\ [i \in 1..3 |-> combined[i].id] = <<"B", "A", "C">>
              /\ [i \in 1..3 |-> combined[i].score] = <<Rat(17, 20), Rat(3, 10), Rat(7, 30)>>

\* the scenario of C1 has been merged, at either entry point
C1_Witness ==
    /\ HybridDone
    /\ db.rank = ScenarioRank /\ db.similarity = ScenarioSim
    /\ req.alpha = 7 /\ req.limit >= 2
    /\ Len(combined) = 3
    /\ Len(results) = 2

\* C2: every normalized score of a non-empty score map (text ranks, vector
\* similarities in [-1, 1]) lies in [0, 1], and the key with the maximum raw
\* score is normalized to exactly 1.0 (a maximum of 0 is the case of C3)
C2_NormalizedInUnit ==
    HybridDone =>
        \A i \in 1..Len(combined) :
           LET id == combined[i].id
           IN  /\ id \in Ids(text_results) =>
                     /\ InUnit(combined[i].text_score)
                     /\ (RowOf(text_results, id).rank = RatMax(RawRanks)
                            /\ RatMax(RawRanks) # Zero) =>
                           combined[i].text_score = One
               /\ id \in Ids(vector_results) =>
                     /\ InUnit(combined[i].vector_score)
                     /\ (RowOf(vector_results, id).similarity = RatMax(RawSims)
                            /\ RatMax(RawSims) # Zero) =>
                           combined[i].vector_score = One

\* C3: a score map whose maximum raw score is 0 normalizes every key to 0.0
\* (and a story of no map has score 0 for that signal), at both entry points
C3_ZeroMaxNormalizesToZero ==
    HybridDone =>
        \A i \in 1..Len(combined) :
           /\ (RawRanks = {} \/ RatMax(RawRanks) = Zero) =>
                 combined[i].text_score = Zero
           /\ (RawSims = {} \/ RatMax(RawSims) = Zero) =>
                 combined[i].vector_score = Zero

\* C4: for alpha in [0, 1] the hybrid score of every returned story lies in
\* [0, 1]
C4_HybridScoreInUnit ==
    (HybridDone /\ req.alpha \in 0..10) =>
        \A i \in 1..Len(results) : InUnit(results[i].score)

\* C5: the returned list is sorted by non-increasing hybrid score, holds no
\* story twice, has length min(N, size of the union of the candidate sets),
\* and no candidate left out has a strictly higher score than a returned one
C5_RankedTopN ==
    HybridDone =>
        LET union == Ids(text_results) \cup Ids(vector_results)
        IN  /\ \A i, j \in 1..Len(results) :
                  i < j => RatLeq(results[j].score, results[i].score)
            /\ \A i, j \in 1..Len(results) :
                  results[i].id = results[j].id => i = j
            /\ Ids(results) \subseteq union
            /\ Len(results) = Min(req.limit, Cardinality(union))
            /\ \A k \in 1..Len(combined) :
                  combined[k].id \notin Ids(results) =>
                      \A i \in 1..Len(results) :
                          RatLeq(combined[k].score, results[i].score)

\* the list was truncated: more candidates than N, N of them returned
C5_Witness ==
    /\ HybridDone
    /\ Len(results) = req.limit
    /\ Cardinality(Ids(text_results) \cup Ids(vector_results)) > req.limit
    /\ \E i \in 1..Len(results) : results[i].score # results[1].score

\* C6: two runs of the same hybrid request on the same datastore return the
\* same ordered list
C6_SameListOnRerun ==
    (HybridDone /\ runs = 2) => results = prev_results

-----------------------------------------------------------------------------
(* Properties of a search request (Spec, FairSpec) *)

\* what a lexical-mode search with the request's query, limit and filter
\* arguments returns
LexicalModeResults ==
    IF req.entry = "api_search"
    THEN TextRows(TextQuery(db, SearchTypeFilter(req.framework, req.framework_category,
                                                 req.story_types), req.limit))
    ELSE TextRows(TextQuery(db, {}, req.limit))

\* a hybrid request whose embedding step ended without an embedding
DegradedHybrid ==
    /\ req.search_type = "hybrid"
    /\ query_embedding = None
    /\ pc \in {"connect", "search", "done"}

\* C7: a hybrid search whose query embedding could not be obtained returns
\* what a lexical search with the same query, limit and filter returns, in
\* the same order, and so does the lexical search itself
C7_DegradationEquivalence ==
    (pc = "done" /\ req.entry \in {"api_search", "cli_search"}
        /\ (DegradedHybrid \/ req.search_type = "text")) =>
            /\ outcome = "ok"
            /\ results = LexicalModeResults

\* a degraded hybrid search returned a list that the limit and the filter cut
C7_Witness ==
    /\ pc = "done"
    /\ DegradedHybrid
    /\ req.entry = "api_search"
    /\ type_filter # {}
    /\ provider_calls = ApiMaxRetries
    /\ Len(results) = req.limit
    /\ Cardinality({s \in DOMAIN db.rank : db.story_type[s] \in type_filter}) > req.limit

C9_VectorFailsBeforeDatastore ==
    (req.search_type = "vector" /\ query_embedding = None /\ pc = "done") =>
        /\ outcome = "embedding_unavailable"
        /\ results = NoRows
        /\ db_calls = 0

-----------------------------------------------------------------------------
(* Properties of the type filter (FilterSpec) *)

KnownFrameworks == {"caps", "sleep_paralysis", "hypnagogic"}

\* the explicit types of the request: the list of a search, the one optional
\* tag of the other endpoints
ExplicitTypes ==
    IF req.entry = "api_search" THEN Range(req.story_types)
    ELSE IF req.story_type \in {None, ""} THEN {} ELSE {req.story_type}

\* every tag of the table
AllTags ==
    UNION {UNION {Range(FrameworkCategories[f][c]) : c \in DOMAIN FrameworkCategories[f]} :
              f \in KnownFrameworks}

\* the resolution order as stated: framework first, then the explicit types
ClaimFilter(fw, cat, explicit) ==
    IF fw \in KnownFrameworks
    THEN IF cat \in DOMAIN FrameworkCategories[fw]
         THEN {t \in AllTags : \E i \in 1..Len(FrameworkCategories[fw][cat]) :
                                  FrameworkCategories[fw][cat][i] = t}
         ELSE {t \in AllTags : \E c \in DOMAIN FrameworkCategories[fw] :
                                  \E i \in 1..Len(FrameworkCategories[fw][c]) :
                                     FrameworkCategories[fw][c][i] = t}
    ELSE explicit

\* the endpoint has resolved the filter of its request
FilterResolved ==
    \/ req.entry = "api_search" /\ pc \in {"embed", "connect", "search", "done"}
    \/ req.entry \in {"api_list", "api_map", "api_points"} /\ pc = "done"

\* the filter the code resolves for the request's endpoint from the given
\* framework name and the request's other arguments
ResolvedWith(fw) ==
    IF req.entry = "api_search"
    THEN SearchTypeFilter(fw, req.framework_category, req.story_types)
    ELSE IF req.entry = "api_list"
    THEN ListTypeFilter(fw, req.framework_category, req.story_type)
    ELSE IF req.entry = "api_map"
    THEN MapTypeFilter(fw, req.framework_category, req.story_type)
    ELSE PointsTypeFilter(fw, req.framework_category, req.story_type)

\* C10: at the four endpoints the resolved type filter is, for a known
\* framework, the tags of the named category when the framework has it and
\* else the union of the framework's categories, whatever explicit types were
\* given; else the explicit types when given; else no filter.  An unknown
\* framework name resolves as no framework does, and resolving the same
\* request again gives the same set.
C10_FilterResolutionOrder ==
    FilterResolved =>
        /\ type_filter = ClaimFilter(req.framework, req.framework_category, ExplicitTypes)
        /\ req.framework \notin KnownFrameworks => type_filter = ResolvedWith(None)
        /\ type_filter = ResolvedWith(req.framework)
        /\ pc = "done" =>
              \A i \in 1..Len(results) :
                 type_filter = {} \/ results[i].story_type \in type_filter

\* the list endpoint answered a request naming a known framework, a category
\* the framework does not have and an explicit type outside the framework
C10_Witness ==
    /\ req.entry = "api_list"
    /\ pc = "done"
    /\ req.framework = "sleep_paralysis"
    /\ req.framework_category = "auditory"
    /\ req.story_type = "ufo"
    /\ "ufo" \notin type_filter
    /\ "ghost" \in type_filter /\ "obe" \in type_filter
    /\ Len(results) > 0

-----------------------------------------------------------------------------
(* Properties of the queries (QuerySpec) *)

\* every row of the list carries a type of the resolved filter
AllOfFilter(rows) == \A i \in 1..Len(rows) : rows[i].story_type \in type_filter

\* C11: whenever the resolved type filter is not empty, every story a query
\* returns has its story_type in the filter: the candidate rows of the
\* lexical and the vector query, the merged list and the returned list of a
\* search in every mode (the command line tool has no filter argument and
\* resolves none), and the rows of the listing, the map and the vector space
C11_FilterOnEveryQuery ==
    type_filter # {} =>
        /\ AllOfFilter(text_results)
        /\ AllOfFilter(vector_results)
        /\ AllOfFilter(combined)
        /\ AllOfFilter(results)

\* a hybrid search with a filter returned a story and left out one that
\* matches the query but not the filter
C11_Witness ==
    /\ HybridDone
    /\ type_filter # {}
    /\ Len(results) > 0
    /\ Len(text_results) > 0 /\ Len(vector_results) > 0
    /\ \E s \in DOMAIN db.rank : db.story_type[s] \notin type_filter

-----------------------------------------------------------------------------
(* Properties of the validation of a search request (ValidateSpec) *)

IsSearch == req.entry \in {"api_search", "cli_search"}

\* the request was turned down as invalid, or is not answered yet
RejectedIfDone == pc = "done" => outcome = "validation_error"

\* C12: a search with empty query text is answered with a validation error,
\* and neither the embedding provider nor the datastore is contacted for it
C12_EmptyQueryRejected ==
    (IsSearch /\ req.query = "") =>
        /\ provider_calls = 0
        /\ db_calls = 0
        /\ RejectedIfDone

\* C13: a search whose limit is not in the allowed range (N <= 0, or above
\* the upper bound of the endpoint) is answered with a validation error and
\* runs no query; no search step runs with a non-positive limit
C13_LimitRangeRejected ==
    /\ (IsSearch /\ (req.limit <= 0
                     \/ (req.entry = "api_search" /\ req.limit > ApiLimitMax))) =>
          /\ runs = 0
          /\ RejectedIfDone
    /\ runs > 0 => req.limit >= 1

\* alpha (in tenths) brought into [0, 1]
Clamp(a) == IF a < 0 THEN 0 ELSE IF a > 10 THEN 10 ELSE a

\* C14: an alpha outside [0, 1] never reaches the blend: the request is
\* rejected (nothing is merged) or every merged score is the blend under the
\* clamped alpha
C14_AlphaOutOfRangeNeverBlended ==
    (IsSearch /\ (req.alpha < 0 \/ req.alpha > 10)) =>
        \A i \in 1..Len(combined) :
           combined[i].score =
              RatAdd(RatMul(Tenths(Clamp(req.alpha)), combined[i].vector_score),
                     RatMul(RatSub(One, Tenths(Clamp(req.alpha))),
                            combined[i].text_score))

-----------------------------------------------------------------------------
(* Properties of the hybrid search under sub-query failures (FaultSpec) *)

\* C15: with the datastore reachable (the connection is open), a hybrid
\* search with an embedding always answers with a ranked list: a sub-query
\* that fails leaves its signal empty and the list is merged from the other
\* signal's candidates
C15_SubQueryFailureDegradesSignal ==
    (pc = "done" /\ req.search_type = "hybrid" /\ query_embedding # None) =>
        /\ outcome = "ok"
        /\ Len(results) = Min(req.limit,
                              Cardinality(Ids(text_results) \cup Ids(vector_results)))
        /\ \A i, j \in 1..Len(results) :
              i < j => RatLeq(results[j].score, results[i].score)

-----------------------------------------------------------------------------
(* Properties of the batch loader (LoadSpec) *)

CommittedOf(i) == {w \in committed : w.file = i}

\* C16: in every state the committed database holds, for each document,
\* either all the rows of its load or none of them; in particular the rows
\* of a load that failed part-way are never committed by a later commit on
\* the same connection
C16_DocumentUpsertAtomic ==
    \A i \in 1..Len(files) :
       /\ CommittedOf(i) \in {{}, Writes(files[i])}
       /\ (\E k \in 1..Len(reported) : reported[k].file = i) => CommittedOf(i) = {}

\* C17: a document's failure is its own: it is counted and reported with the
\* file name, no document fails because an earlier one did, every file is
\* attempted, and at the end loaded + skipped + errors is the number of files
C17_FailureFatalForOneDocument ==
    /\ errors = Len(reported)
    /\ \A k \in 1..Len(reported) :
          /\ reported[k].file \in 1..idx
          /\ reported[k].error # "in_failed_transaction"
          /\ files[reported[k].file].skip = "no"
    /\ loaded + skipped + errors <= idx
    /\ pc = "load_done" =>
          /\ idx = Len(files)
          /\ loaded + skipped + errors = Len(files)
          /\ \A i \in 1..Len(files) :
                (files[i].skip = "no" /\ files[i].params = "ok"
                    /\ \A k \in 1..Len(reported) : reported[k].file # i)
                 => CommittedOf(i) # {}

-----------------------------------------------------------------------------
(* RunSpec: load_segments.py with and without --dry-run and                *)
(* --no-frameworks; FrameworkSpec: the callers of analyze_story_frameworks *)

AllOpts == [dry_run : BOOLEAN, frameworks_enabled : BOOLEAN]

RunInit == \E o \in AllOpts : LoadInitWith(o)

RunNext == LoaderNext \/ FwAttempt

RunSpec == RunInit /\ [][RunNext]_vars

BackfillReq == [NoReq EXCEPT !.entry = "backfill_frameworks", !.api_key = TRUE]

\* main of load_segments.py with frameworks enabled, or main of
\* backfill_frameworks.py at the head of its loop: the rows are first-person
\* stories with content
FrameworkInit ==
    \/ LoadInitWith([dry_run |-> FALSE, frameworks_enabled |-> TRUE])
    \/ \E o \in {[dry_run |-> d, frameworks_enabled |-> TRUE] : d \in BOOLEAN},
          fs \in {f \in FileLists :
                     \A i \in 1..Len(f) : f[i].skip = "no" /\ f[i].params = "ok"
                                          /\ ~f[i].chunked} :
          /\ db \in RepeatDBs
          /\ db.rank = NoRank /\ db.similarity = NoSim
          /\ req = BackfillReq
          /\ pc = "backfill_story"
          /\ files = fs
          /\ idx = 1
          /\ txn = "idle"
          /\ pending = {}
          /\ committed = {}
          /\ loaded = 0
          /\ skipped = 0
          /\ errors = 0
          /\ reported = <<>>
          /\ type_filter = {}
          /\ query_embedding = None
          /\ attempt = 0
          /\ provider_calls = 0
          /\ waits = <<>>
          /\ response = None
          /\ db_calls = 1
          /\ text_results = NoRows
          /\ vector_results = NoRows
          /\ combined = NoRows
          /\ results = NoRows
          /\ outcome = None
          /\ runs = 0
          /\ prev_results = NoRows
          /\ body = <<>>
          /\ chunker = ChunkerStart
          /\ plan = NoPlan
          /\ opts = o
          /\ analysis = FwStart
          /\ doc_stmts = 0
          /\ StoreIdle

FrameworkNext ==
    LoaderNext \/ FwAttempt \/ BackfillStory \/ BackfillUpdate \/ BackfillNext

FrameworkSpec == FrameworkInit /\ [][FrameworkNext]_vars

-----------------------------------------------------------------------------
(* ReloadSpec: one segment loaded up to MaxLoads times, with and without a *)
(* date in its frontmatter                                                 *)

ReloadInit ==
    /\ db \in RepeatDBs
    /\ db.rank = NoRank /\ db.similarity = NoSim
    /\ req = LoadReq
    /\ pc = "reload"
    /\ tables = NoTables
    /\ reload \in [air_date : {"2024-01-26", "NULL"}, loads : {0}, nchunks : {0},
                   status : {"None"}]
    /\ LoaderIdle
    /\ body = <<>>
    /\ chunker = ChunkerStart
    /\ plan = NoPlan
    /\ opts = PlainOpts
    /\ analysis = FwStart
    /\ doc_stmts = 0
    /\ type_filter = {}
    /\ query_embedding = None
    /\ attempt = 0
    /\ provider_calls = 0
    /\ waits = <<>>
    /\ response = None
    /\ db_calls = 1
    /\ text_results = NoRows
    /\ vector_results = NoRows
    /\ combined = NoRows
    /\ results = NoRows
    /\ outcome = None
    /\ runs = 0
    /\ prev_results = NoRows

ReloadNext == ReloadSegment

ReloadSpec == ReloadInit /\ [][ReloadNext]_vars

-----------------------------------------------------------------------------
(* AlphaSpec: the CLI hybrid search at the two ends of alpha, then the     *)
(* same query with the one signal alone                                    *)

AlphaReqs == {CliSearchReq(FALSE, FALSE, n, a, TRUE) : n \in 1..MaxLimit, a \in {0, 10}}

AlphaInit == db \in MergeDBs /\ req \in AlphaReqs /\ AtSearch

AlphaNext == CliHybridSearch \/ RerunOneSignal \/ CliTextSearch \/ CliVectorSearch

AlphaSpec == AlphaInit /\ [][AlphaNext]_vars

-----------------------------------------------------------------------------
(* ChunkSpec: chunk_text over every short body; MethodSpec: the choice of  *)
(* the embedding method of load_segment_to_db over the same bodies         *)

\* most paragraphs of a body
MaxParas == 3

\* words of a paragraph: none; 49 and 50 tokens, either side of the overlap;
\* 451 tokens, which 49 more fill to the target; 500 and 501 tokens, either
\* side of the target; 4000 tokens, the threshold of the full method
WordCounts == {0, 38, 39, 347, 385, 386, 3077}

Bodies == UNION {[1..n -> WordCounts] : n \in 1..MaxParas}

\* load_segment_to_db with a body in hand, skips and dry run behind it
IngestInit(at) ==
    /\ db \in RepeatDBs
    /\ db.rank = NoRank /\ db.similarity = NoSim
    /\ req = LoadReq
    /\ pc = at
    /\ body \in Bodies
    /\ chunker = ChunkerStart
    /\ plan = NoPlan
    /\ opts = PlainOpts
    /\ analysis = FwStart
    /\ doc_stmts = 0
    /\ StoreIdle
    /\ LoaderIdle
    /\ type_filter = {}
    /\ query_embedding = None
    /\ attempt = 0
    /\ provider_calls = 0
    /\ waits = <<>>
    /\ response = None
    /\ db_calls = 0
    /\ text_results = NoRows
    /\ vector_results = NoRows
    /\ combined = NoRows
    /\ results = NoRows
    /\ outcome = None
    /\ runs = 0
    /\ prev_results = NoRows

ChunkInit == IngestInit("chunking")

ChunkNext == ChunkStep \/ ChunkReturn

ChunkSpec == ChunkInit /\ [][ChunkNext]_vars

\* the loop of chunk_text runs to its end
FairChunkSpec == ChunkSpec /\ WF_vars(ChunkNext)

MethodInit == IngestInit("embed_choice")

MethodNext == ChooseMethod \/ ChunkStep \/ ChunkReturn \/ EmbedChunks

MethodSpec == MethodInit /\ [][MethodNext]_vars

-----------------------------------------------------------------------------
(* Claims C18-C20: the answers of the embedding provider *)

\* a call of the embedding function is in its loop
InEmbedLoop == pc \in {"embed", "load_embed"}

\* max_retries of the call site
MaxRetriesHere ==
    IF req.entry = "api_search" THEN ApiMaxRetries
    ELSE IF req.entry = "cli_search" THEN CliMaxRetries ELSE LoadMaxRetries

\* the call has ended without an embedding: the scripts' exception reaches
\* its handler (the loader reports the file, the CLI falls back to the
\* lexical query or exits), the API goes on with None
CallFailed ==
    /\ ~InEmbedLoop
    /\ query_embedding = None
    /\ req.entry = "load_segments" =>
          /\ reported # <<>>
          /\ reported[Len(reported)].error = "embedding"
    /\ req.entry = "cli_search" =>
          req.text_only \/ (pc = "done" /\ outcome = "embedding_unavailable")

\* C18: a call sends at most max_retries requests (5 in the scripts, 3 in the
\* API); after the request number k + 1 of a call was answered 429 the client
\* has waited 2^k seconds (1, 2, 4, ...); below the cap the call is still in
\* its loop and at the cap it has ended in failure.
C18_RateLimitBackoff ==
    /\ provider_calls <= MaxRetriesHere
    /\ response = "rate_limited" =>
          /\ waits # <<>>
          /\ waits[Len(waits)] = 2 ^ (provider_calls - 1)
          /\ provider_calls < MaxRetriesHere => InEmbedLoop /\ attempt = provider_calls
          /\ provider_calls = MaxRetriesHere => CallFailed

\* every request of a loader call was rate-limited: five requests, waits of
\* 1, 2, 4, 8 and 16 seconds, and the file reported as an error
C18_Witness ==
    /\ req.entry = "load_segments"
    /\ pc = "load_next"
    /\ provider_calls = LoadMaxRetries
    /\ response = "rate_limited"
    /\ waits = <<1, 2, 4, 8, 16>>
    /\ errors = 1

\* C19: after an answer that signals an authentication failure the call is
\* over: no further request of the same call can be sent.
C19_AuthErrorNeverRetried ==
    response = "auth_error" => ~InEmbedLoop

\* C20: after another HTTP error the call goes on while requests remain under
\* the cap, and fails at the cap.
C20_HttpErrorRetriedToCap ==
    response = "http_error" =>
        IF provider_calls < MaxRetriesHere THEN InEmbedLoop ELSE CallFailed

-----------------------------------------------------------------------------
(* Claims C21, C22, C28, C29: the embedding method and chunk_text *)

RECURSIVE TokenSum(_, _)
\* estimated tokens of a chunk, summed over its paragraphs
TokenSum(paras, ps) ==
    IF ps = <<>> THEN 0
    ELSE estimate_tokens(paras[Head(ps)]) + TokenSum(paras, Tail(ps))

BodyTokens == estimate_tokens(Words(body, FullText(body)))

\* C21: the estimate of the body alone decides the method: below 4000 the
\* full method with one embedding input; from 4000 on the chunked method
\* with at least two inputs and a pooled embedding of a single embedding's
\* dimension.
C21_MethodFromTokenCount ==
    pc = "method_done" =>
        IF BodyTokens < MAX_TOKENS_FOR_FULL_EMBED
        THEN plan.method = "full" /\ plan.inputs = 1
        ELSE /\ plan.method = "mean_pooled"
             /\ plan.inputs >= 2
             /\ Len(plan.embedding) = Len(Vec(body, FullText(body)))

\* an iteration of chunk_text closed the running chunk
ChunkClosed == chunker'.chunks # chunker.chunks

\* C22: in every iteration the running chunk is closed exactly when it is
\* not empty and the next paragraph would take the running token count above
\* the target; after a close the next chunk starts with the last paragraph
\* of the closed chunk exactly when that paragraph's own estimate is below
\* the overlap, and empty otherwise; the paragraph is then added and the
\* running token count is the sum of the estimates of the chunk's paragraphs.
C22_GreedyBoundaryPolicy ==
    [][(pc = "chunking" /\ chunker'.i = chunker.i + 1) =>
          LET i    == chunker.i
              last == chunker.current_chunk[Len(chunker.current_chunk)]
          IN  /\ ChunkClosed <=>
                    /\ chunker.current_chunk # <<>>
                    /\ chunker.current_tokens + estimate_tokens(body[i])
                          > CHUNK_SIZE_TOKENS
              /\ ChunkClosed =>
                    /\ chunker'.chunks = Append(chunker.chunks, chunker.current_chunk)
                    /\ chunker'.current_chunk =
                          IF estimate_tokens(body[last]) < CHUNK_OVERLAP_TOKENS
                          THEN <<last, i>> ELSE <<i>>
              /\ ~ChunkClosed =>
                    chunker'.current_chunk = Append(chunker.current_chunk, i)
              /\ chunker'.current_tokens = TokenSum(body, chunker'.current_chunk)
      ]_vars

\* three chunks: the second starts with the seed of the first (49 tokens),
\* the third without one (the second ends on 500 tokens)
C22_Witness ==
    /\ pc = "chunk_done"
    /\ body = <<38, 385, 39>>
    /\ chunker.chunks = <<<<1>>, <<1, 2>>, <<3>>>>

\* the chunks that hold the paragraph at position p
ChunksWith(p) ==
    {c \in 1..Len(chunker.chunks) :
        \E k \in 1..Len(chunker.chunks[c]) : chunker.chunks[c][k] = p}

Covered ==
    LET chunks == chunker.chunks
    IN  /\ \A p \in 1..Len(body) : ChunksWith(p) # {}
        /\ \A c \in 1..Len(chunks) :
              \A j, k \in 1..Len(chunks[c]) : j < k => chunks[c][j] < chunks[c][k]
        /\ \A c \in 1..Len(chunks) - 1 :
              \A j \in 1..Len(chunks[c]), k \in 1..Len(chunks[c + 1]) :
                  chunks[c][j] <= chunks[c + 1][k]
        /\ \A p \in 1..Len(body) :
              /\ Cardinality(ChunksWith(p)) <= 2
              /\ \A c, d \in ChunksWith(p) : c - d \in {-1, 0, 1}
        /\ \A c \in 2..Len(chunks) :
              \E k \in 1..Len(chunks[c]) : c - 1 \notin ChunksWith(chunks[c][k])
        /\ chunks # <<>> /\ chunks[1] # <<>>
        /\ Len(chunks) <= Len(body)

\* C28: chunk_text returns, and the chunks it returns cover the text: every
\* paragraph in some chunk, in input order within and across chunks, in at
\* most two chunks and then in consecutive ones, every chunk with a paragraph
\* the previous chunk does not hold, never more chunks than paragraphs.
C28_ChunksCoverText ==
    /\ [](pc = "chunk_done" => Covered)
    /\ <>(pc = "chunk_done")

\* a paragraph of 49 tokens is the last of one chunk and the seed of the next
C28_Witness ==
    /\ pc = "chunk_done"
    /\ Len(body) = MaxParas
    /\ \E p \in 1..Len(body) : Cardinality(ChunksWith(p)) = 2
    /\ \E p \in 1..Len(body) : Cardinality(ChunksWith(p)) = 1

\* C29: when no paragraph is above the target no chunk is, its seed counted;
\* a chunk above the target is a single paragraph above the target.
C29_ChunkWithinTarget ==
    pc = "chunk_done" =>
        \A c \in 1..Len(chunker.chunks) :
            LET chunk == chunker.chunks[c]
            IN  TokenSum(body, chunk) > CHUNK_SIZE_TOKENS =>
                    /\ Len(chunk) = 1
                    /\ estimate_tokens(body[chunk[1]]) > CHUNK_SIZE_TOKENS

-----------------------------------------------------------------------------
(* Claims C25, C30: dry runs, skipped documents and the framework analysis *)

\* nothing was asked of the embedding provider, of the model or of the
\* database for the document in hand
NoCallsForDocument == provider_calls = 0 /\ analysis.calls = 0 /\ doc_stmts = 0

\* C25: a dry run calls neither the embedding provider nor the framework
\* analysis and has no database connection, so it reads and writes nothing;
\* in any run a document that was skipped caused no call, no statement and
\* no write.
C25_DryRunAndSkipHaveNoSideEffects ==
    /\ opts.dry_run =>
          /\ NoCallsForDocument
          /\ db_calls = 0 /\ txn = "none"
          /\ pending = {} /\ committed = {}
    /\ (pc \in {"load_next", "load_done"} /\ files[idx].skip # "no") =>
          /\ NoCallsForDocument
          /\ \A w \in pending \cup committed : w.file # files[idx].name

\* a dry run with frameworks enabled over a loadable and a skipped file
C25_Witness ==
    /\ pc = "load_done"
    /\ opts.dry_run /\ opts.frameworks_enabled
    /\ loaded = 1 /\ skipped = 1

\* the fields that hold a belief stance
BeliefFields == {<<"rpbs", key>> : key \in FRAMEWORKS["rpbs"]} \cup {<<"aei", "belief">>}

\* the payload passes validation, as the claim words it
PassesValidation(data) ==
    /\ data.kind = "object"
    /\ \A f \in DOMAIN FRAMEWORKS : data.fws[f].kind = "object"
    /\ \A f \in DOMAIN FRAMEWORKS : \A key \in FRAMEWORKS[f] :
          /\ data.fws[f].keys[key].kind = "object"
          /\ <<f, key>> \in BeliefFields =>
                data.fws[f].keys[key].stance \in {"affirmed", "denied", "not_mentioned"}
          /\ <<f, key>> \notin BeliefFields =>
                data.fws[f].keys[key].present \in {"true", "false"}

\* C30: at most max_retries + 1 model calls for a story; the analysis stops
\* at the first answer that passes validation and returns only such an
\* answer; when every attempt failed it raised RuntimeError after
\* max_retries + 1 calls, the caller counted the error and stored no
\* framework data and no row for that story.
C30_FrameworkAnalysisValidated ==
    /\ analysis.calls <= FwMaxRetries + 1
    /\ analysis.result = "returned" =>
          /\ PassesValidation(analysis.frameworks)
          /\ pc \notin {"load_frameworks", "backfill_analyze"}
    /\ analysis.stored # NoPayload =>
          /\ PassesValidation(analysis.stored)
          /\ analysis.stored = analysis.frameworks
    /\ analysis.result = "RuntimeError" =>
          /\ analysis.calls = FwMaxRetries + 1
          /\ analysis.stored = NoPayload
          /\ reported # <<>> /\ reported[Len(reported)].error = "frameworks"
          /\ pc \in {"load_next", "backfill_next"} =>
                \A w \in pending \cup committed : w.file # files[idx].name
    /\ (analysis.result = "None" /\ pc \notin {"load_frameworks", "backfill_analyze"}) =>
          analysis.calls = 0

\* the backfill of two stories: for one every attempt failed, for the other
\* a valid answer was stored
C30_Witness ==
    /\ req.entry = "backfill_frameworks"
    /\ pc = "backfill_done"
    /\ errors = 1 /\ loaded = 1
    /\ analysis.calls = FwMaxRetries + 1

-----------------------------------------------------------------------------
(* Claims C26, C27: the rows a reloaded story leaves *)

\* the stories that hold the most recently loaded content
LatestStories == {st \in tables.stories : st.content = reload.loads}

\* C26: after a successful load the story_chunks rows of the story are the
\* chunks of the content just loaded: none after the full method, and
\* otherwise one row per chunk, chunk_index 0..k-1, with that content.
C26_ChunkRowsOfLatestContent ==
    reload.status \in {"inserted", "updated"} =>
        \A st \in LatestStories :
            {c \in tables.story_chunks : c.story_id = st.id}
               = {[story_id |-> st.id, chunk_index |-> i, content |-> reload.loads] :
                      i \in 0..(reload.nchunks - 1)}

\* C27: after any number of loads of the segment there is one episode row
\* for its (show, date) and one story row for its (episode, title, start
\* time), and every load after the first reports 'updated'.
C27_LoadIsUpsert ==
    reload.loads >= 1 =>
        /\ Cardinality({e \in tables.episodes :
                           e.podcast_name = "show" /\ e.air_date = reload.air_date}) = 1
        /\ Cardinality({st \in tables.stories :
                           st.title = "title" /\ st.start_time_seconds = 0}) = 1
        /\ reload.loads >= 2 => reload.status = "updated"

-----------------------------------------------------------------------------
(* Claims C23, C24: alpha at its ends, and the merge at the two call sites *)

\* the stories of a result list, in order
IdList(rows) == [i \in 1..Len(rows) |-> rows[i].id]

\* C23: the hybrid search with alpha = 0.0 returns the stories of the
\* text-only search of the same query and limit, in the same order, and with
\* alpha = 1.0 those of the vector-only search.
C23_AlphaEndsAreSingleSignal ==
    (/\ pc = "done" /\ outcome = "ok" /\ runs = 2
     /\ req.entry = "cli_search"
     /\ req.search_type \in {"text", "vector"})
        => IdList(prev_results) = IdList(results)

\* the scores the other call site gives the story on the same candidate sets
OtherSiteScores(id) ==
    IF req.entry = "api_search"
    THEN CliCombine(text_results, vector_results, Tenths(req.alpha), <<id>>)[1]
    ELSE ApiCombine(text_results, vector_results, Tenths(req.alpha), <<id>>)[1]

\* C24: at either call site the hybrid search fetched 2N candidates per
\* signal, and the text_score, vector_score and hybrid_score it gave each
\* story are those the other call site computes from the same candidate
\* sets, alpha and limit, whatever the maximum raw scores.
C24_MergeConsistentAcrossCallSites ==
    HybridDone =>
        /\ text_results = TextQuery(db, type_filter, 2 * req.limit)
        /\ vector_results = VectorQuery(db, type_filter, 2 * req.limit)
        /\ \A i \in 1..Len(combined) :
              LET other == OtherSiteScores(combined[i].id)
              IN  /\ combined[i].text_score = other.text_score
                  /\ combined[i].vector_score = other.vector_score
                  /\ combined[i].score = other.score

====
